---- MODULE Spec2Model ----
(***************************************************************************)
(* A model of notesdir: the href resolver (models.py), the rearrange       *)
(* planner (rearrange.py), the direct repository (repos/direct.py) and the *)
(* SQLite-backed caching repository (repos/sqlite.py).                     *)
(*                                                                         *)
(* Paths are sequences of name segments (<<"n", "a.md">> is /n/a.md).  The  *)
(* filesystem has no symlinks, so os.path.realpath is normalisation.  A    *)
(* Markdown document is kept as what MarkdownAccessor parses out of it:    *)
(* title, created, tags and, line by line, the hrefs of its links.         *)
(***************************************************************************)
EXTENDS Integers, Sequences, FiniteSets, Bags, TLC

VARIABLES
    fs,             \* the filesystem: existing path -> node
    clock,          \* the filesystem clock (source of ctime / mtime)
    files,          \* table files of the cache
    file_tags,      \* table file_tags of the cache: set of <<file_id, tag>>
    file_links,     \* table file_links of the cache: bag of rows
    needs_refresh,  \* SqliteRepo._needs_refresh
    edits,          \* the edit commands planned and not yet given to change()
    last            \* record of the last operation (what it saw and did)

vars == <<fs, clock, files, file_tags, file_links, needs_refresh, edits, last>>

cacheVars == <<files, file_tags, file_links, needs_refresh>>

-----------------------------------------------------------------------------
(* Bounds of the model.                                                    *)

\* filesystem mutations (writes, deletions) in one run of the cache model
MaxClock == 3

-----------------------------------------------------------------------------
(* Values.                                                                 *)

\* Python's None for a title or a created date
None == "None"

\* LinkInfo.referent() returning None
NonePath == <<"None">>

\* NULL in an id column (referent_id of a non-local link)
NoId == 0

\* NULL in a stat column
NoStat == 0

NullSig == [st_ctime |-> NoStat, st_mtime |-> NoStat, st_size |-> NoStat]

Max(S) == CHOOSE m \in S : \A k \in S : k <= m

Range(s) == {s[i] : i \in DOMAIN s}

RECURSIVE Flatten(_)
Flatten(ss) == IF ss = <<>> THEN <<>> ELSE Head(ss) \o Flatten(Tail(ss))

\* the elements of a finite set, one after the other
RECURSIVE SeqOf(_)
SeqOf(S) ==
    IF S = {} THEN <<>>
    ELSE LET x == CHOOSE y \in S : TRUE IN <<x>> \o SeqOf(S \ {x})

\* every ordering of a finite set, as sequences
Perms(S) ==
    {s \in [1..Cardinality(S) -> S] : \A i, j \in DOMAIN s : i # j => s[i] # s[j]}

-----------------------------------------------------------------------------
(* Paths.                                                                  *)

Parent(p) == IF p = <<>> THEN <<>> ELSE SubSeq(p, 1, Len(p) - 1)

Basename(p) == IF p = <<>> THEN "" ELSE p[Len(p)]

IsPrefix(d, p) == Len(d) <= Len(p) /\ SubSeq(p, 1, Len(d)) = d

IsUnder(d, p) == Len(d) < Len(p) /\ IsPrefix(d, p)

\* os.path.normpath of an absolute path: "." dropped, ".." pops (not above /)
RECURSIVE normpath(_, _)
normpath(done, rest) ==
    IF rest = <<>> THEN done
    ELSE IF Head(rest) = "." THEN normpath(done, Tail(rest))
    ELSE IF Head(rest) = ".." THEN normpath(Parent(done), Tail(rest))
    ELSE normpath(Append(done, Head(rest)), Tail(rest))

realpath(p) == normpath(<<>>, p)

\* os.path.relpath(dest, start) for absolute normalised paths
RECURSIVE CommonLen(_, _)
CommonLen(p, q) ==
    IF p = <<>> \/ q = <<>> \/ Head(p) # Head(q) THEN 0
    ELSE 1 + CommonLen(Tail(p), Tail(q))

relpath(dest, start) ==
    LET k == CommonLen(dest, start)
        ups == [i \in 1..(Len(start) - k) |-> ".."]
        rel == ups \o SubSeq(dest, k + 1, Len(dest))
    IN IF rel = <<>> THEN <<".">> ELSE rel

-----------------------------------------------------------------------------
(* Strings: their order and their percent-encoding.                        *)

\* The tokens hrefs and paths are made of, in Python's string order.  No
\* token is a prefix of another (but "." of "..", and "." only occurs as a
\* whole path), so comparing two strings is comparing their token sequences.
Tokens ==
    <<"#", ".", "..", ".h.md", ".i", "/", "?", "B", "B.md", "a", "a.md",
      "a_1.md", "a_2.md", "b", "b.md", "b_1.md", "b_2.md", "c.md", "c_1.md", "c_2.md", "d", "e", "file:",
      "foo", "g.md", "h#i.md", "h%23i.md", "https:", "n", "o", "p%25q.md",
      "p%q.md", "q%3Fr.md", "q?r.md", "skip.md", "t.md", "w",
      "x y.md", "x%20y.md", "x%2By.md", "x+y.md", "z!.md", "z%21.md">>

TokRanks == [t \in Range(Tokens) |-> CHOOSE i \in DOMAIN Tokens : Tokens[i] = t]

\* a name that is not in the table (a temporary file) comes last
TokRank(t) == IF t \in DOMAIN TokRanks THEN TokRanks[t] ELSE Len(Tokens) + 1

RECURSIVE StrLess(_, _)
StrLess(s, t) ==
    IF t = <<>> THEN FALSE
    ELSE IF s = <<>> THEN TRUE
    ELSE IF Head(s) = Head(t) THEN StrLess(Tail(s), Tail(t))
    ELSE TokRank(Head(s)) < TokRank(Head(t))

\* How the strings that hold a reserved character are spelled: the reserved
\* characters and hex digits one by one, the unreserved runs between them
\* whole.  Every other string is one unreserved run.
Spelling ==
    "x y.md" :> <<"x", " ", "y.md">>
    @@ "x+y.md" :> <<"x", "+", "y.md">>
    @@ "x%20y.md" :> <<"x", "%", "2", "0", "y.md">>
    @@ "x%2By.md" :> <<"x", "%", "2", "B", "y.md">>
    @@ "h#i.md" :> <<"h", "#", "i.md">>
    @@ "h%23i.md" :> <<"h", "%", "2", "3", "i.md">>
    @@ "p%q.md" :> <<"p", "%", "q.md">>
    @@ "p%25q.md" :> <<"p", "%", "2", "5", "q.md">>
    @@ "q?r.md" :> <<"q", "?", "r.md">>
    @@ "q%3Fr.md" :> <<"q", "%", "3", "F", "r.md">>
    @@ "z!.md" :> <<"z", "!", ".md">>
    @@ "z%21.md" :> <<"z", "%", "2", "1", ".md">>

Chars(str) == IF str \in DOMAIN Spelling THEN Spelling[str] ELSE <<str>>

RECURSIVE Concat(_)
Concat(chars) == IF chars = <<>> THEN "" ELSE Head(chars) \o Concat(Tail(chars))

\* the percent escape of each character that quote() does not keep
Escapes ==
    " " :> <<"%", "2", "0">> @@ "!" :> <<"%", "2", "1">> @@ "#" :> <<"%", "2", "3">>
    @@ "%" :> <<"%", "2", "5">> @@ "+" :> <<"%", "2", "B">> @@ "?" :> <<"%", "3", "F">>

\* the character of each pair of hex digits
HexPairs ==
    <<"2", "0">> :> " " @@ <<"2", "1">> :> "!" @@ <<"2", "3">> :> "#"
    @@ <<"2", "5">> :> "%" @@ <<"2", "B">> :> "+" @@ <<"3", "F">> :> "?"

\* quote() that also keeps the number sign
QuoteKeepingHash(seg) ==
    Concat(Flatten([i \in DOMAIN Chars(seg) |->
        IF Chars(seg)[i] \in DOMAIN Escapes \ {"#"}
        THEN Escapes[Chars(seg)[i]] ELSE <<Chars(seg)[i]>>]))

\* urllib.parse.quote of one path segment (safe="/"): every character but
\* the unreserved ones is percent-encoded
quote(seg) ==
    Concat(Flatten([i \in DOMAIN Chars(seg) |->
        IF Chars(seg)[i] \in DOMAIN Escapes
        THEN Escapes[Chars(seg)[i]] ELSE <<Chars(seg)[i]>>]))

\* urllib.parse.unquote: "%" and two hex digits is the character they encode
RECURSIVE unquote(_)
unquote(chars) ==
    IF chars = <<>> THEN <<>>
    ELSE IF /\ Head(chars) = "%"
            /\ Len(chars) >= 3
            /\ <<chars[2], chars[3]>> \in DOMAIN HexPairs
         THEN <<HexPairs[<<chars[2], chars[3]>>]>> \o unquote(SubSeq(chars, 4, Len(chars)))
         ELSE <<Head(chars)>> \o unquote(Tail(chars))

\* urllib.parse.unquote_plus of one path segment: a plus sign is read as a
\* space, then percent escapes are decoded
unquote_plus(seg) ==
    Concat(unquote([i \in DOMAIN Chars(seg) |->
        IF Chars(seg)[i] = "+" THEN " " ELSE Chars(seg)[i]]))

RECURSIVE JoinSlash(_)
JoinSlash(segs) ==
    IF segs = <<>> THEN <<>>
    ELSE IF Len(segs) = 1 THEN segs
    ELSE <<Head(segs), "/">> \o JoinSlash(Tail(segs))

PathStr(p) == Flatten([i \in DOMAIN p |-> <<"/", p[i]>>])

PathLess(p, q) == StrLess(PathStr(p), PathStr(q))

-----------------------------------------------------------------------------
(* Hrefs: a link address as urllib.parse.urlparse splits it.               *)

Url(scheme, netloc, abs, segs, query, frag) ==
    [scheme |-> scheme, netloc |-> netloc, abs |-> abs, segs |-> segs,
     query |-> query, frag |-> frag]

\* a relative path, as in [x](../a.md)
Rel(segs) == Url("", "", FALSE, segs, "", "")

\* a relative path with a fragment, as in [x](a.md#foo); no segments: (#foo)
RelFrag(segs, frag) == Url("", "", FALSE, segs, "", frag)

\* an absolute path, as in [x](/n/a.md)
Abs(segs) == Url("", "", TRUE, segs, "", "")

\* a file URL, as in [x](file:///n/a.md)
FileUrl(segs) == Url("file", "", TRUE, segs, "", "")

\* a web address, as in [x](https://e/o)
WebUrl == Url("https", "e", TRUE, <<"o">>, "", "")

\* the text of an href (urlunparse), as tokens
HrefStr(h) ==
    (IF h.scheme = "" THEN <<>> ELSE <<h.scheme \o ":">>)
    \o (IF h.scheme # "" \/ h.netloc # "" THEN <<"//", h.netloc>> ELSE <<>>)
    \o (IF h.abs THEN <<"/">> ELSE <<>>)
    \o JoinSlash(h.segs)
    \o (IF h.query = "" THEN <<>> ELSE <<"?", h.query>>)
    \o (IF h.frag = "" THEN <<>> ELSE <<"#", h.frag>>)

HrefLess(g, h) == StrLess(HrefStr(g), HrefStr(h))

LinkInfo(referrer, href) == [referrer |-> referrer, href |-> href]

\* LinkInfo.referent without its test of the host of a file URL
ReferentOfAnyHost(link) ==
    LET url == link.href IN
    IF url.scheme \in {"", "file"}
    THEN IF ~url.abs /\ url.segs = <<>>
         THEN link.referrer
         ELSE LET decoded == [i \in DOMAIN url.segs |-> unquote_plus(url.segs[i])]
              IN IF url.abs
                 THEN realpath(decoded)
                 ELSE realpath(link.referrer \o <<"..">> \o decoded)
    ELSE NonePath

\* LinkInfo.referent
referent(link) ==
    LET url == link.href IN
    IF url.scheme = "" \/ (url.scheme = "file" /\ url.netloc \in {"", "localhost"})
    THEN IF ~url.abs /\ url.segs = <<>>
         THEN link.referrer
         ELSE LET decoded == [i \in DOMAIN url.segs |-> unquote_plus(url.segs[i])]
              IN IF url.abs
                 THEN realpath(decoded)
                 ELSE realpath(link.referrer \o <<"..">> \o decoded)
    ELSE NonePath

\* sorted(...) of a list of hrefs
SortHrefs(hs) == SortSeq(hs, HrefLess)

LinkLess(k, l) ==
    \/ PathLess(k.referrer, l.referrer)
    \/ k.referrer = l.referrer /\ HrefLess(k.href, l.href)

\* list.sort(key=attrgetter('referrer', 'href'))
SortLinks(ls) == SortSeq(ls, LinkLess)

-----------------------------------------------------------------------------
(* Documents and the filesystem.                                           *)

Doc(title, created, tags, lines) ==
    [title |-> title, created |-> created, tags |-> tags, lines |-> lines]

\* the hrefs of a document (MarkdownAccessor._load: self.hrefs)
Hrefs(doc) == Flatten(doc.lines)

\* st_size of a file holding the document
Size(doc) ==
    1 + Len(Hrefs(doc)) + Cardinality(doc.tags)
      + (IF doc.title = None THEN 0 ELSE 1) + (IF doc.created = None THEN 0 ELSE 1)

DirNode == [kind |-> "dir"]

FileNode(doc, ctime, mtime) ==
    [kind |-> "file", doc |-> doc,
     stat |-> [st_ctime |-> ctime, st_mtime |-> mtime, st_size |-> Size(doc)]]

\* os.path.exists, os.path.isdir, a regular file, on a given filesystem
ExistsIn(f, p) == p \in DOMAIN f

IsDirIn(f, p) == ExistsIn(f, p) /\ f[p].kind = "dir"

IsFileIn(f, p) == ExistsIn(f, p) /\ f[p].kind = "file"

\* the same on the filesystem as it is now
exists(p) == ExistsIn(fs, p)

isdir(p) == IsDirIn(fs, p)

isfile(p) == IsFileIn(fs, p)

\* DelegatingAccessor: MarkdownAccessor for *.md, MiscAccessor otherwise
IsMarkdown(p) ==
    Basename(p) \in {"a.md", "b.md", "c.md", "g.md", "t.md", "skip.md",
                     "x y.md", "x+y.md", ".h.md",
                     "a_1.md", "a_2.md", "b_1.md", "b_2.md", "c_1.md", "c_2.md"}

FileInfo(path) ==
    [path |-> path, links |-> <<>>, tags |-> {}, title |-> None,
     created |-> None, backlinks |-> <<>>]

\* Accessor.info of an existing file: MarkdownAccessor._info / MiscAccessor._info
AccessorInfo(path) ==
    IF IsMarkdown(path)
    THEN LET doc == fs[path].doc
             hs == SortHrefs(Hrefs(doc))
         IN [FileInfo(path) EXCEPT
                !.title = doc.title, !.created = doc.created, !.tags = doc.tags,
                !.links = [i \in DOMAIN hs |-> LinkInfo(path, hs[i])]]
    ELSE FileInfo(path)

-----------------------------------------------------------------------------
(* Configuration (RepoConf) of the modelled repository.                    *)

root_paths == {<<"n">>}

\* conf.ignore: default_ignore, names starting with a period
ignore(parentpath, filename) == filename \in {".h.md", ".i"}

\* conf.skip_parse: a configured predicate on the name
skip_parse(parentpath, filename) == filename = "skip.md"

-----------------------------------------------------------------------------
(* DirectRepo.                                                             *)

\* _paths_in without its test of conf.ignore
UnderRootIgnoredToo(p, root) == IsUnder(root, p)

\* DirectRepo._paths / _paths_in: the regular files below the roots with no
\* ignored name on the way down, each with its skip_parse flag
UnderRoot(p, root) ==
    /\ IsUnder(root, p)
    /\ \A k \in (Len(root) + 1)..Len(p) : ~ignore(SubSeq(p, 1, k - 1), p[k])

SkipFlag(p, root) ==
    \E k \in Len(root)..Len(p) : k >= 1 /\ skip_parse(SubSeq(p, 1, k - 1), p[k])

_paths ==
    {e \in [path : DOMAIN fs, skip_parse : BOOLEAN] :
        /\ isfile(e.path)
        /\ \E root \in root_paths :
              /\ isdir(root)
              /\ UnderRoot(e.path, root)
              /\ e.skip_parse = SkipFlag(e.path, root)}

\* DirectRepo._should_skip_parse: ignore or skip_parse holds on the way up
_should_skip_parse(path) ==
    \E k \in 1..Len(path) :
        \/ ignore(SubSeq(path, 1, k - 1), path[k])
        \/ skip_parse(SubSeq(path, 1, k - 1), path[k])

\* DirectRepo.info without backlinks (what the file says in isolation)
DirectInfoOwn(path, skip) ==
    IF skip \/ ~exists(path) THEN FileInfo(path)
    ELSE IF isdir(path) THEN FileInfo(path)
    ELSE AccessorInfo(path)

\* FileQuery.apply_filtering on one info
Matches(query, info) ==
    /\ (query.include_tags # {} => query.include_tags \subseteq info.tags)
    /\ (query.exclude_tags # {} => query.exclude_tags \cap info.tags = {})

FileQuery(include_tags, exclude_tags) ==
    [include_tags |-> include_tags, exclude_tags |-> exclude_tags]

\* DirectRepo.query, as the set of infos it yields
DirectQuery(query) ==
    {info \in {DirectInfoOwn(e.path, e.skip_parse) : e \in _paths} :
        Matches(query, info)}

\* DirectRepo.tag_counts (SqliteRepo inherits it), on what query() yields
tag_counts(infos) ==
    [tag \in UNION {info.tags : info \in infos} |->
        Cardinality({info \in infos : tag \in info.tags})]

\* the backlinks DirectRepo.info collects: every link of every queried file
\* whose referent is the path, sorted by referrer and href
RECURSIVE LinksTo(_, _)
LinksTo(path, infos) ==
    IF infos = {} THEN <<>>
    ELSE LET other == CHOOSE info \in infos : TRUE
         IN SelectSeq(other.links, LAMBDA link : referent(link) = path)
            \o LinksTo(path, infos \ {other})

DirectBacklinks(path) == SortLinks(LinksTo(path, DirectQuery(FileQuery({}, {}))))

\* DirectRepo.info
DirectInfo(path, backlinks) ==
    LET info == DirectInfoOwn(path, _should_skip_parse(path))
    IN IF backlinks THEN [info EXCEPT !.backlinks = DirectBacklinks(path)]
       ELSE info

-----------------------------------------------------------------------------
(* SqliteRepo: the cache tables and _refresh.                              *)

\* a row of table files
FileRow(id, path, existent, stat, title, created) ==
    [id |-> id, path |-> path, existent |-> existent,
     stat_ctime |-> stat.st_ctime, stat_mtime |-> stat.st_mtime,
     stat_size |-> stat.st_size, title |-> title, created |-> created]

\* a row of table file_links (its own id is never read)
LinkRow(referrer_id, referent_id, href) ==
    [referrer_id |-> referrer_id, referent_id |-> referent_id, href |-> href]

\* no row (dict.get returning None, fetchone returning None)
NoRow ==
    [id |-> NoId, path |-> NonePath, existent |-> FALSE, stat_ctime |-> NoStat,
     stat_mtime |-> NoStat, stat_size |-> NoStat, title |-> None, created |-> None]

\* dict.get on rows keyed by path
RowByPath(rows, path) ==
    IF \E r \in rows : r.path = path
    THEN CHOOSE r \in rows : r.path = path
    ELSE NoRow

\* cursor.lastrowid after an INSERT into an INTEGER PRIMARY KEY table
lastrowid(rows) == IF rows = {} THEN 1 ELSE Max({r.id : r \in rows}) + 1

\* DELETE FROM file_links WHERE referrer_id = ?
DeleteLinksOf(links, id) ==
    [l \in {k \in DOMAIN links : k.referrer_id # id} |-> links[l]]

\* DELETE FROM file_tags WHERE file_id = ?
DeleteTagsOf(tags, id) == {t \in tags : t[1] # id}

\* INSERT INTO file_links that refuses a row already present
InsertLinkOnce(links, row) ==
    IF row \in DOMAIN links THEN links ELSE links (+) SetToBag({row})

\* INSERT INTO file_links
InsertLink(links, row) == links (+) SetToBag({row})

\* _SQL_UPDATE_FILE without its WHERE clause
UpdateFileEveryRow(rows, id, existent, stat, title, created) ==
    {FileRow(r.id, r.path, existent, stat, title, created) : r \in rows}

\* _SQL_UPDATE_FILE
UpdateFile(rows, id, existent, stat, title, created) ==
    {IF r.id = id THEN FileRow(id, r.path, existent, stat, title, created) ELSE r :
        r \in rows}

\* dict.get on ids_by_path, a set of <<path, id>>
IdByPath(ids_by_path, path) ==
    IF \E e \in ids_by_path : e[1] = path
    THEN (CHOOSE e \in ids_by_path : e[1] = path)[2]
    ELSE NoId

\* _refresh, first loop: one entry of self._paths()
RefreshVisit(prior, st, entry) ==
    LET pathstr == entry.path
        row == RowByPath(prior, pathstr)
        seen == [st EXCEPT !.found_paths = @ \cup {pathstr}]
        stat == fs[pathstr].stat
    IN IF row # NoRow /\ entry.skip_parse THEN seen
       ELSE IF /\ row # NoRow
               /\ row.stat_ctime = stat.st_ctime
               /\ row.stat_mtime = stat.st_mtime
               /\ row.stat_size = stat.st_size
       THEN seen
       ELSE LET info == DirectInfoOwn(pathstr, entry.skip_parse)
                file_id == IF row # NoRow THEN row.id ELSE lastrowid(st.files)
                rows == IF row # NoRow
                        THEN UpdateFile(st.files, file_id, TRUE, stat,
                                        info.title, info.created)
                        ELSE st.files \cup
                             {FileRow(file_id, pathstr, TRUE, stat,
                                      info.title, info.created)}
                tags == IF row # NoRow THEN DeleteTagsOf(st.file_tags, file_id)
                        ELSE st.file_tags
                links == IF row # NoRow THEN DeleteLinksOf(st.file_links, file_id)
                         ELSE st.file_links
            IN [seen EXCEPT
                   !.files = rows,
                   !.file_tags = tags \cup {<<file_id, t>> : t \in info.tags},
                   !.file_links = links,
                   !.ids_by_path = {e \in @ : e[1] # pathstr} \cup {<<pathstr, file_id>>},
                   !.links_to_add =
                       @ \o [i \in DOMAIN info.links |-> <<file_id, info.links[i]>>],
                   !.parsed = @ \cup {pathstr}]

\* _refresh, second loop: one entry of links_to_add
RefreshLink(prior, st, item) ==
    LET referrer_id == item[1]
        link == item[2]
        target == referent(link)
    IN IF target = NonePath
       THEN [st EXCEPT !.file_links = InsertLink(@, LinkRow(referrer_id, NoId, link.href))]
       ELSE LET known == IdByPath(st.ids_by_path, target)
                prior_row == RowByPath(prior, target)
                referent_id == IF known # NoId THEN known
                               ELSE IF prior_row # NoRow THEN prior_row.id
                               ELSE lastrowid(st.files)
                inserted == known = NoId /\ (prior_row = NoRow \/ prior_row.id = NoId)
            IN [st EXCEPT
                   !.found_paths = @ \cup {target},
                   !.files = IF inserted
                             THEN @ \cup {FileRow(referent_id, target, FALSE, NullSig,
                                                  None, None)}
                             ELSE @,
                   !.ids_by_path = IF inserted THEN @ \cup {<<target, referent_id>>}
                                   ELSE @,
                   !.file_links =
                       InsertLink(@, LinkRow(referrer_id, referent_id, link.href))]

\* the third loop without its SELECT COUNT(*): the record goes whatever links
\* to it
RefreshDeleteUncounted(st, id_to_delete) ==
    [st EXCEPT
        !.files = {r \in @ : r.id # id_to_delete},
        !.file_tags = DeleteTagsOf(@, id_to_delete),
        !.file_links = DeleteLinksOf(@, id_to_delete)]

\* _refresh, third loop: one entry of ids_to_delete
RefreshDelete(st, id_to_delete) ==
    LET count == BagCardinality(
                     [l \in {k \in DOMAIN st.file_links : k.referent_id = id_to_delete}
                         |-> st.file_links[l]])
        rows == IF count = 0
                THEN {r \in st.files : r.id # id_to_delete}
                ELSE UpdateFile(st.files, id_to_delete, FALSE, NullSig, None, None)
    IN [st EXCEPT
           !.files = rows,
           !.file_tags = DeleteTagsOf(@, id_to_delete),
           !.file_links = DeleteLinksOf(@, id_to_delete)]

RECURSIVE RefreshVisits(_, _, _)
RefreshVisits(prior, st, entries) ==
    IF entries = <<>> THEN st
    ELSE RefreshVisits(prior, RefreshVisit(prior, st, Head(entries)), Tail(entries))

RECURSIVE RefreshLinks(_, _, _)
RefreshLinks(prior, st, items) ==
    IF items = <<>> THEN st
    ELSE RefreshLinks(prior, RefreshLink(prior, st, Head(items)), Tail(items))

RECURSIVE RefreshDeletes(_, _)
RefreshDeletes(st, ids) ==
    IF ids = <<>> THEN st
    ELSE RefreshDeletes(RefreshDelete(st, Head(ids)), Tail(ids))

\* os.scandir yields entries in no particular order; the order only decides
\* which ids new rows get, so the walk is taken in path order
WalkOrder ==
    SortSeq(SeqOf(_paths), LAMBDA d, e : PathLess(d.path, e.path))

\* the state of _refresh after its first two loops
RefreshScanned ==
    LET start == [files |-> files, file_tags |-> file_tags, file_links |-> file_links,
                  found_paths |-> {}, ids_by_path |-> {}, links_to_add |-> <<>>,
                  parsed |-> {}]
        walked == RefreshVisits(files, start, WalkOrder)
    IN RefreshLinks(files, walked, walked.links_to_add)

\* ids_to_delete, a list built from a set difference: in any order
ids_to_delete(scanned) ==
    {r.id : r \in {q \in files : q.path \notin scanned.found_paths}}

\* SqliteRepo._refresh, given the order in which ids_to_delete is processed
_refresh(order) == RefreshDeletes(RefreshScanned, order)

-----------------------------------------------------------------------------
(* SqliteRepo: reading.                                                    *)

\* a created date as sqlite3 stores it (TEXT) and as datetime.fromisoformat
\* reads it back
ToText(created) == IF created = "2012-01-02T03:04:05" THEN "2012-01-02 03:04:05" ELSE created

fromisoformat(text) == IF text = "2012-01-02 03:04:05" THEN "2012-01-02T03:04:05" ELSE text

\* the elements of a bag, each as often as it occurs
BagSeq(b) ==
    LET elems == SeqOf(DOMAIN b)
    IN Flatten([i \in DOMAIN elems |-> [k \in 1..b[elems[i]] |-> elems[i]]])

\* SqliteRepo.info
SqliteInfo(path, backlinks) ==
    LET file_row == RowByPath(files, path)
    IN IF file_row = NoRow THEN FileInfo(path)
       ELSE LET file_id == file_row.id
                rows == BagSeq(file_links)
                own == SelectSeq(rows, LAMBDA l : l.referrer_id = file_id)
                hrefs == SortHrefs([i \in DOMAIN own |-> own[i].href])
                inbound == SelectSeq(rows, LAMBDA l :
                               /\ l.referent_id = file_id
                               /\ \E r \in files : r.id = l.referrer_id)
                referrer(l) == (CHOOSE r \in files : r.id = l.referrer_id).path
            IN [path |-> path,
                title |-> file_row.title,
                created |-> IF file_row.created = None THEN None
                            ELSE fromisoformat(file_row.created),
                tags |-> {t[2] : t \in {u \in file_tags : u[1] = file_id}},
                links |-> [i \in DOMAIN hrefs |-> LinkInfo(path, hrefs[i])],
                backlinks |->
                    IF backlinks
                    THEN SortLinks([i \in DOMAIN inbound |->
                                       LinkInfo(referrer(inbound[i]), inbound[i].href)])
                    ELSE <<>>]

\* SqliteRepo.query once the cache is refreshed, as the set of infos it yields
SqliteQuery(query) ==
    {info \in {SqliteInfo(r.path, FALSE) : r \in {q \in files : q.existent}} :
        Matches(query, info)}

-----------------------------------------------------------------------------
(* The cache model: a filesystem that changes under a SqliteRepo.          *)

NotesA == <<"n", "a.md">>
NotesB == <<"n", "b.md">>
NotesSkip == <<"n", "skip.md">>
NotesH == <<"n", ".h.md">>
NotesI == <<"n", ".i">>
NotesIB == <<"n", ".i", "b.md">>

Created1 == "2012-01-02T03:04:05"

DocPlain == Doc(None, None, {}, <<>>)
DocToB == Doc("T", Created1, {"x"}, << <<Rel(<<"b.md">>)>> >>)
DocToBTwice == Doc(None, None, {"y"}, << <<Rel(<<"b.md">>), Rel(<<"b.md">>)>>, <<WebUrl>> >>)
DocToA == Doc("U", None, {"x", "y"}, << <<Rel(<<"a.md">>)>> >>)
DocToSkip == Doc(None, None, {}, << <<Rel(<<"skip.md">>)>>, <<RelFrag(<<>>, "foo")>> >>)
\* [h](.h.md) and [b](.i/b.md), with a tag
DocToHidden == Doc(None, None, {"x"}, << <<Rel(<<".h.md">>)>>, <<Rel(<<".i", "b.md">>)>> >>)
\* [a](../a.md), with a title and a tag
DocUpToA == Doc("U", None, {"y"}, << <<Rel(<<"..", "a.md">>)>> >>)

\* what a file of the cache model may hold
DocsAt(p) ==
    IF p = NotesSkip THEN {DocPlain}
    ELSE IF p \in {NotesH, NotesIB} THEN {DocToA, DocToHidden, DocUpToA}
    ELSE {DocPlain, DocToB, DocToBTwice, DocToA, DocToSkip}

CachePaths == {NotesA, NotesB, NotesSkip}

\* the filesystems a repository may be opened on
InitialFs ==
    {f \in UNION {[S \cup {<<"n">>} -> {DirNode} \cup
                       {FileNode(d, 1, 1) : d \in UNION {DocsAt(p) : p \in CachePaths}}]
                  : S \in SUBSET CachePaths} :
        /\ f[<<"n">>] = DirNode
        /\ \A p \in DOMAIN f \ {<<"n">>} : f[p] # DirNode /\ f[p].doc \in DocsAt(p)}

\* SqliteRepo.__init__ on an empty cache file
Init ==
    /\ fs \in InitialFs
    /\ clock = 1
    /\ files = {}
    /\ file_tags = {}
    /\ file_links = EmptyBag
    /\ needs_refresh = TRUE
    /\ edits = <<>>
    /\ last = [op |-> "init"]

\* a file is written outside the repository (created or rewritten)
WriteFile(p, doc) ==
    /\ clock < MaxClock
    /\ ~isdir(p)
    /\ isfile(p) => fs[p].doc # doc
    /\ clock' = clock + 1
    /\ fs' = [q \in DOMAIN fs \cup {p} |->
                 IF q = p THEN FileNode(doc, clock', clock') ELSE fs[q]]
    /\ last' = [op |-> "write"]
    /\ UNCHANGED <<cacheVars, edits>>

\* a file is deleted outside the repository
DeleteFile(p) ==
    /\ clock < MaxClock
    /\ isfile(p)
    /\ clock' = clock + 1
    /\ fs' = [q \in DOMAIN fs \ {p} |-> fs[q]]
    /\ last' = [op |-> "delete"]
    /\ UNCHANGED <<cacheVars, edits>>

\* a file is renamed outside the repository (mv): ctime changes, mtime stays
RenameFile(p, q) ==
    /\ clock < MaxClock
    /\ isfile(p)
    /\ p # q
    /\ ~isdir(q)
    /\ fs[p].doc \in DocsAt(q)
    /\ clock' = clock + 1
    /\ fs' = [r \in (DOMAIN fs \ {p}) \cup {q} |->
                 IF r = q THEN FileNode(fs[p].doc, clock', fs[p].stat.st_mtime)
                 ELSE fs[r]]
    /\ last' = [op |-> "rename"]
    /\ UNCHANGED <<cacheVars, edits>>

\* SqliteRepo.invalidate
invalidate ==
    /\ ~needs_refresh
    /\ needs_refresh' = TRUE
    /\ last' = [op |-> "invalidate"]
    /\ UNCHANGED <<fs, clock, files, file_tags, file_links, edits>>

\* a read (info, query): _refresh_if_needed runs _refresh
_refresh_if_needed ==
    /\ needs_refresh
    /\ \E order \in Perms(ids_to_delete(RefreshScanned)) :
            LET done == _refresh(order)
            IN /\ files' = done.files
               /\ file_tags' = done.file_tags
               /\ file_links' = done.file_links
               /\ last' = [op |-> "refresh",
                           files |-> files, file_tags |-> file_tags,
                           file_links |-> file_links,
                           parsed |-> done.parsed,
                           walked |-> {e.path : e \in _paths},
                           cause |-> last]
    /\ needs_refresh' = FALSE
    /\ UNCHANGED <<fs, clock, edits>>


-----------------------------------------------------------------------------
(* Edit commands and the rearrange planner (rearrange.py).                 *)

\* no href (the fields a MoveCmd does not have)
NoHref == Url("", "", FALSE, <<>>, "", "")

\* path_as_href raising ValueError, as the href it fails to return
ValueError == Url("ValueError", "", FALSE, <<>>, "", "")

ReplaceHrefCmd(path, original, replacement) ==
    [cmd |-> "ReplaceHref", path |-> path, original |-> original,
     replacement |-> replacement, dest |-> NonePath]

MoveCmd(path, dest) ==
    [cmd |-> "Move", path |-> path, original |-> NoHref, replacement |-> NoHref,
     dest |-> dest]

CreateCmd(path, contents) ==
    [cmd |-> "Create", path |-> path, original |-> NoHref, replacement |-> NoHref,
     dest |-> NonePath, contents |-> contents]

\* a dict as the sequence of its <<key, value>> items, in insertion order
Keys(dict) == {dict[i][1] : i \in DOMAIN dict}

Values(dict) == {dict[i][2] : i \in DOMAIN dict}

Get(dict, key) == dict[CHOOSE i \in DOMAIN dict : dict[i][1] = key][2]

\* dict[key] = value: a key that is present keeps its place
Put(dict, key, value) ==
    IF key \in Keys(dict)
    THEN [i \in DOMAIN dict |-> IF dict[i][1] = key THEN <<key, value>> ELSE dict[i]]
    ELSE Append(dict, <<key, value>>)

\* href_path: the relative path from the directory of src to dest
href_path(src, dest) == relpath(realpath(dest), Parent(realpath(src)))

\* path_as_href of a relative path (which is all the planner passes): the
\* path percent-encoded, put into into_url in place of its path
path_as_href(path, into_url) ==
    IF into_url.scheme # "" \/ into_url.netloc # ""
    THEN ValueError
    ELSE [into_url EXCEPT !.abs = FALSE,
                          !.segs = [i \in DOMAIN path |-> quote(path[i])]]

\* tempfile.mkstemp(prefix=destname, dir=destdir): a new, empty regular file
mkstemp(dest) == Append(Parent(dest), Basename(dest) \o "_tmp")

\* edits_for_raw_moves, first loop: the destinations staged through a
\* temporary file (a set is iterated; taken in path order)
Staged(f, resolved) ==
    SortSeq(SeqOf({dest \in Values(resolved) :
                      dest \in Keys(resolved) /\ ExistsIn(f, dest)}), PathLess)

\* edits_for_raw_moves yielding each completion move right after its staging
\* move instead of keeping it for phase 2
RawMovesCompletedAtOnce(f, renames) ==
    LET staged == Staged(f, renames)
        direct == SelectSeq(renames, LAMBDA item :
                      item[1] \notin Values(renames) /\ ExistsIn(f, item[1]))
    IN Flatten([i \in DOMAIN staged |->
                   <<MoveCmd(staged[i], mkstemp(staged[i])),
                     MoveCmd(mkstemp(staged[i]), Get(renames, staged[i]))>>])
       \o [i \in DOMAIN direct |-> MoveCmd(direct[i][1], direct[i][2])]

\* edits_for_raw_moves
edits_for_raw_moves(f, renames) ==
    LET resolved == renames
        staged == Staged(f, resolved)
        phase1 == [i \in DOMAIN staged |-> MoveCmd(staged[i], mkstemp(staged[i]))]
        phase2 == [i \in DOMAIN staged |->
                      MoveCmd(mkstemp(staged[i]), Get(resolved, staged[i]))]
        direct == SelectSeq(resolved, LAMBDA item :
                      item[1] \notin Values(resolved) /\ ExistsIn(f, item[1]))
    IN phase1 \o [i \in DOMAIN direct |-> MoveCmd(direct[i][1], direct[i][2])] \o phase2

\* the files mkstemp has created once edits_for_raw_moves has run
WithTempFiles(f, renames, now) ==
    LET tmps == {mkstemp(dest) : dest \in Range(Staged(f, renames))}
    IN [p \in DOMAIN f \cup tmps |->
           IF p \in tmps THEN FileNode(Doc(None, None, {}, <<>>), now, now) ELSE f[p]]

\* edits_for_path_replacement, for the one href the planner passes
edits_for_path_replacement(referrer, href, replacement) ==
    <<ReplaceHrefCmd(referrer, href, path_as_href(href_path(referrer, replacement), href))>>

\* glob(src/**/*, recursive=True): everything below src that has no hidden
\* name on the way down (in path order)
Glob(src) ==
    SortSeq(SeqOf({p \in DOMAIN fs :
                      /\ IsUnder(src, p)
                      /\ \A k \in (Len(src) + 1)..Len(p) : p[k] \notin {".h.md", ".i"}}),
            PathLess)

\* edits_for_rearrange: all_moves, the renames with the contents of every
\* renamed directory
RECURSIVE PutAll(_, _)
PutAll(dict, items) ==
    IF items = <<>> THEN dict
    ELSE PutAll(Put(dict, Head(items)[1], Head(items)[2]), Tail(items))

RECURSIVE AllMoves(_, _)
AllMoves(all_moves, to_move) ==
    IF to_move = <<>> THEN all_moves
    ELSE LET src == Head(to_move)[1]
             dest == Head(to_move)[2]
             inside == IF isdir(src) THEN Glob(src) ELSE <<>>
             below == [i \in DOMAIN inside |->
                          <<inside[i], dest \o SubSeq(inside[i], Len(src) + 1, Len(inside[i]))>>]
         IN AllMoves(PutAll(Put(all_moves, src, dest), below), Tail(to_move))

\* edits_for_rearrange: the ReplaceHrefCmds for the links of one moved path
Outbound(all_moves, src, dest) ==
    LET links == DirectInfo(src, FALSE).links
        target(link) == IF referent(link) \in Keys(all_moves)
                        THEN Get(all_moves, referent(link))
                        ELSE referent(link)
        newhref(link) == path_as_href(href_path(dest, target(link)), link.href)
        changed == SelectSeq(links, LAMBDA link :
                       referent(link) # NonePath /\ link.href # newhref(link))
    IN [i \in DOMAIN changed |-> ReplaceHrefCmd(src, changed[i].href, newhref(changed[i]))]

\* edits_for_rearrange: the ReplaceHrefCmds for the backlinks of one moved path
Inbound(all_moves, src, dest) ==
    LET backlinks == SelectSeq(DirectInfo(src, TRUE).backlinks,
                               LAMBDA link : link.referrer \notin Keys(all_moves))
    IN Flatten([i \in DOMAIN backlinks |->
                   edits_for_path_replacement(backlinks[i].referrer, backlinks[i].href, dest)])

\* edits_for_rearrange with a DirectRepo as store
edits_for_rearrange(renames) ==
    LET to_move == renames
        all_moves == AllMoves(<<>>, to_move)
    IN Flatten([i \in DOMAIN all_moves |->
                   Outbound(all_moves, all_moves[i][1], all_moves[i][2])
                   \o Inbound(all_moves, all_moves[i][1], all_moves[i][2])])
       \o edits_for_raw_moves(fs, to_move)

-----------------------------------------------------------------------------
(* DirectRepo.change: accessors and os.rename.                             *)

\* the outcome of a step on a filesystem: the filesystem and the exception
Outcome(f, error) == [fs |-> f, error |-> error]

\* os.rename(src, dst) on Linux
os_rename(f, src, dst, now) ==
    IF ~ExistsIn(f, src) \/ ~IsDirIn(f, Parent(dst))
    THEN Outcome(f, "FileNotFoundError")
    ELSE IF src = dst THEN Outcome(f, None)
    ELSE IF IsFileIn(f, src) /\ IsDirIn(f, dst) THEN Outcome(f, "IsADirectoryError")
    ELSE IF IsDirIn(f, src) /\ IsFileIn(f, dst) THEN Outcome(f, "NotADirectoryError")
    ELSE IF IsDirIn(f, src) /\ (IsUnder(src, dst) \/ \E p \in DOMAIN f : IsUnder(dst, p))
    THEN Outcome(f, "OSError")
    ELSE LET moved == {p \in DOMAIN f : IsPrefix(src, p)}
             to(p) == dst \o SubSeq(p, Len(src) + 1, Len(p))
             from(q) == src \o SubSeq(q, Len(dst) + 1, Len(q))
             landed == {to(p) : p \in moved}
             node(p) == IF p = src /\ f[p].kind = "file"
                        THEN FileNode(f[p].doc, now, f[p].stat.st_mtime)
                        ELSE f[p]
         IN Outcome([q \in (DOMAIN f \ moved) \cup landed |->
                        IF q \in landed THEN node(from(q)) ELSE f[q]], None)

\* markdown._replace_href on one line: the greedy pattern (\[.*\])\(src\)
\* matches once, up to the last link of the line that has the address
ReplaceLast(line, original, replacement) ==
    IF \E k \in DOMAIN line : line[k] = original
    THEN [line EXCEPT ![Max({k \in DOMAIN line : line[k] = original})] = replacement]
    ELSE line

\* Accessor.edit of a ReplaceHrefCmd on a MarkdownAccessor whose file held the
\* given hrefs when it was loaded
MarkdownEdit(doc, hrefs, edit) ==
    IF edit.original = edit.replacement \/ edit.original \notin Range(hrefs) THEN doc
    ELSE [doc EXCEPT !.lines = [i \in DOMAIN @ |->
                                   ReplaceLast(@[i], edit.original, edit.replacement)]]

RECURSIVE MarkdownEdits(_, _, _)
MarkdownEdits(doc, hrefs, group) ==
    IF group = <<>> THEN doc
    ELSE MarkdownEdits(MarkdownEdit(doc, hrefs, Head(group)), hrefs, Tail(group))

\* MarkdownAccessor._save: the metadata block is written anew, and ends with
\* a line of three dots.  A document records how its block ended in the text
\* (meta_end) when that was with three dashes.
_save(doc) ==
    IF "meta_end" \in DOMAIN doc THEN [doc EXCEPT !.meta_end = "..."] ELSE doc

\* DirectRepo.change, accessor branch: load, edit with every command, save
AccessorGroup(f, group, now) ==
    LET path == group[1].path
        effective == \E i \in DOMAIN group : group[i].original # group[i].replacement
    IN IF ~IsMarkdown(path)
       THEN Outcome(f, IF effective THEN "UnsupportedChangeError" ELSE None)
       ELSE IF ~ExistsIn(f, path) THEN Outcome(f, "FileNotFoundError")
       ELSE IF IsDirIn(f, path) THEN Outcome(f, "IsADirectoryError")
       ELSE LET hrefs == Hrefs(f[path].doc)
                edited == \E i \in DOMAIN group :
                              /\ group[i].original # group[i].replacement
                              /\ group[i].original \in Range(hrefs)
                doc == MarkdownEdits(f[path].doc, hrefs, group)
            IN IF edited
               THEN Outcome([f EXCEPT ![path] = FileNode(_save(doc), now, now)], None)
               ELSE Outcome(f, None)

\* _group_edits: a command that is no MoveCmd and no CreateCmd joins the
\* current group when it has the path of the group's first command, whatever
\* that first command is; any other command starts a group
RECURSIVE _group_edits(_, _)
_group_edits(result, rest) ==
    IF rest = <<>> THEN result
    ELSE LET edit == Head(rest)
             n == Len(result)
         IN IF n > 0 /\ edit.path = result[n][1].path /\ edit.cmd \notin {"Move", "Create"}
            THEN _group_edits([result EXCEPT ![n] = Append(@, edit)], Tail(rest))
            ELSE _group_edits(Append(result, <<edit>>), Tail(rest))

\* DirectRepo.change, a group whose first command is a MoveCmd: every command
\* of the group is read as a MoveCmd (edit.create_parents, edit.dest)
RECURSIVE MoveGroup(_, _, _)
MoveGroup(out, group, now) ==
    IF group = <<>> \/ out.error # None THEN out
    ELSE IF Head(group).cmd # "Move" THEN Outcome(out.fs, "AttributeError")
    ELSE MoveGroup(os_rename(out.fs, Head(group).path, Head(group).dest, now),
                   Tail(group), now)

\* DirectRepo.change, a group whose first command is a CreateCmd: for every
\* command of the group the file is opened for writing (and so emptied), then
\* edit.contents is written
RECURSIVE CreateGroup(_, _, _)
CreateGroup(out, group, now) ==
    IF group = <<>> \/ out.error # None THEN out
    ELSE LET edit == Head(group)
             f == out.fs
             opened(doc) == [q \in DOMAIN f \cup {edit.path} |->
                                IF q = edit.path THEN FileNode(doc, now, now) ELSE f[q]]
         IN IF ~IsDirIn(f, Parent(edit.path)) THEN Outcome(f, "FileNotFoundError")
            ELSE IF IsDirIn(f, edit.path) THEN Outcome(f, "IsADirectoryError")
            ELSE IF edit.cmd # "Create" THEN Outcome(opened(DocPlain), "AttributeError")
            ELSE CreateGroup(Outcome(opened(edit.contents), None), Tail(group), now)

\* DirectRepo.change, one group
ChangeGroup(f, group, now) ==
    IF group[1].cmd = "Move" THEN MoveGroup(Outcome(f, None), group, now)
    ELSE IF group[1].cmd = "Create" THEN CreateGroup(Outcome(f, None), group, now)
    ELSE AccessorGroup(f, group, now)

\* DirectRepo.change going on with the next group after one has raised, and
\* raising the first error at the end
RECURSIVE ChangeGroupsPastErrors(_, _, _)
ChangeGroupsPastErrors(out, groups, now) ==
    IF groups = <<>> THEN out
    ELSE LET next == ChangeGroup(out.fs, Head(groups), now)
         IN ChangeGroupsPastErrors(
                Outcome(next.fs, IF out.error # None THEN out.error ELSE next.error),
                Tail(groups), now)

\* DirectRepo.change: group after group, until one raises
RECURSIVE ChangeGroups(_, _, _)
ChangeGroups(out, groups, now) ==
    IF groups = <<>> \/ out.error # None THEN out
    ELSE ChangeGroups(ChangeGroup(out.fs, Head(groups), now), Tail(groups), now)

DirectChange(f, planned, now) ==
    ChangeGroups(Outcome(f, None), _group_edits(<<>>, planned), now)

-----------------------------------------------------------------------------
(* The cache model, continued: changes made through the repository.        *)

\* the edit lists handed to change(): a move, an edit of a link followed by
\* a move of the edited file (as in test_change), or a move followed by an
\* edit that names the file by the path it has left
ChangeLists ==
    {<<MoveCmd(p, q)>> : p \in CachePaths, q \in CachePaths} \cup
    {<<ReplaceHrefCmd(p, Rel(<<"b.md">>), Rel(<<"a.md">>)), MoveCmd(p, q)>> :
        p \in CachePaths, q \in CachePaths} \cup
    {<<MoveCmd(m[1], m[2]), ReplaceHrefCmd(m[1], Rel(<<"b.md">>), Rel(<<"a.md">>))>> :
        m \in {n \in CachePaths \X CachePaths : n[1] # n[2]}}

\* SqliteRepo.change: DirectRepo.change, then invalidate() whatever happened
SqliteChange(planned) ==
    /\ clock < MaxClock
    /\ planned[Len(planned)].path # planned[Len(planned)].dest
    /\ clock' = clock + 1
    /\ LET out == DirectChange(fs, planned, clock')
       IN /\ fs' = out.fs
          /\ last' = [op |-> "change", edits |-> planned, error |-> out.error,
                      applied |-> out.fs # fs]
    /\ needs_refresh' = TRUE
    /\ UNCHANGED <<files, file_tags, file_links, edits>>

Next ==
    \/ \E p \in CachePaths : \E doc \in DocsAt(p) : WriteFile(p, doc)
    \/ \E p \in CachePaths : DeleteFile(p)
    \/ \E p, q \in CachePaths : RenameFile(p, q)
    \/ invalidate
    \/ _refresh_if_needed
    \/ \E planned \in ChangeLists : SqliteChange(planned)

Spec == Init /\ [][Next]_vars

-----------------------------------------------------------------------------
(* The rearrange model: a plan is made on a notes directory, then applied.  *)

NotesT == <<"n", "t.md">>
NotesC == <<"n", "c.md">>
NotesW == <<"n", "w">>
NotesWD == <<"n", "w", "d">>
NotesG == <<"n", "w", "d", "g.md">>
NotesE == <<"n", "e">>
NotesEC == <<"n", "e", "c.md">>
NotesD == <<"n", "d">>
NotesET == <<"n", "e", "t.md">>
NotesEA == <<"n", "e", "a.md">>

\* [a](a.md) and [b](b.md) on two lines
DocToAAndB == Doc(None, None, {}, << <<Rel(<<"a.md">>)>>, <<Rel(<<"b.md">>)>> >>)
\* [a](/n/a.md) and, on the same line, [g](w/d/g.md)
DocAbsAndG == Doc(None, None, {}, << <<Abs(<<"n", "a.md">>), Rel(<<"w", "d", "g.md">>)>> >>)
\* [b](file:///n/b.md)
DocFileUrl == Doc(None, None, {}, << <<FileUrl(<<"n", "b.md">>)>> >>)
\* [1](../../a.md) and [2](../a.md) on two lines
DocUp == Doc(None, None, {}, << <<Rel(<<"..", "..", "a.md">>)>>, <<Rel(<<"..", "a.md">>)>> >>)

\* [s](#foo), [b](./b.md) and [p](x+y.md) on three lines
DocSpellings ==
    Doc(None, None, {}, << <<RelFrag(<<>>, "foo")>>, <<Rel(<<".", "b.md">>)>>,
                           <<Rel(<<"x+y.md">>)>> >>)

\* what a file of the rearrange model may hold
RearrangeDocs(p) ==
    CASE p = NotesA -> {DocPlain, DocToAAndB, DocSpellings}
      [] p = NotesB -> {DocPlain, DocToA}
      [] p = NotesT -> {DocToAAndB, DocToBTwice, DocAbsAndG, DocFileUrl}
      [] p = NotesG -> {DocPlain, DocUp}
      [] OTHER -> {DocPlain}

RearrangeFiles == {NotesA, NotesB, NotesT, NotesG, NotesEC}

\* the directories of a set of files
DirsOf(S) == {d \in {<<"n">>, NotesW, NotesWD, NotesE} : d = <<"n">> \/ \E p \in S : IsUnder(d, p)}

\* a document for every file of the rearrange model
DocChoices ==
    {c \in [RearrangeFiles -> UNION {RearrangeDocs(p) : p \in RearrangeFiles}] :
        \A p \in RearrangeFiles : c[p] \in RearrangeDocs(p)}

\* the notes directories a plan may be made on
RearrangeFs ==
    {[p \in S \cup DirsOf(S) |-> IF p \in S THEN FileNode(c[p], 1, 1) ELSE DirNode] :
        S \in {R \in SUBSET RearrangeFiles : {NotesT, NotesEC} \subseteq R}, c \in DocChoices}

\* the rename maps (dicts, in insertion order) a plan may be asked for: one
\* entry, or two entries with different keys and different values
FileRenames == {<<s, d>> : s \in {NotesA, NotesB}, d \in {NotesA, NotesB, NotesC}}
DirRenames == {<<s, d>> : s \in {NotesW, NotesWD, NotesE}, d \in {NotesW, NotesE, NotesD}}

RenameMaps ==
    LET one == {r \in FileRenames \cup DirRenames
                     \cup {<<NotesA, NotesE>>, <<NotesE, NotesA>>, <<NotesT, NotesET>>,
                           <<NotesA, NotesEA>>} :
                   r[1] # r[2]}
        two == {<<NotesA, NotesB>>, <<NotesB, NotesA>>, <<NotesB, NotesC>>,
                <<NotesW, NotesE>>, <<NotesE, NotesW>>}
    IN {<<r>> : r \in one}
       \cup {m \in {<<r, q>> : r \in two, q \in two} :
                 m[1][1] # m[2][1] /\ m[1][2] # m[2][2]}

\* the rename map that moves everything back
Back(renames) == [i \in DOMAIN renames |-> <<renames[i][2], renames[i][1]>>]

InitRearrange ==
    /\ fs \in RearrangeFs
    /\ clock = 1
    /\ files = {}
    /\ file_tags = {}
    /\ file_links = EmptyBag
    /\ needs_refresh = TRUE
    /\ edits = <<>>
    /\ last = [op |-> "init"]

\* list(edits_for_rearrange(repo, renames)): the plan, or the ValueError of
\* path_as_href; mkstemp has created its files when the plan is complete.
\* A second plan may be asked for once the first is applied: the way back.
PlanRearrange(renames) ==
    /\ \/ last.op = "init"
       \/ /\ last.op = "change"
          /\ last.planner = "edits_for_rearrange"
          /\ last.error = None
          /\ ~last.back
          /\ renames = Back(last.renames)
    /\ LET plan == edits_for_rearrange(renames)
           raised == \E i \in DOMAIN plan : plan[i].replacement = ValueError
       IN /\ edits' = IF raised THEN <<>> ELSE plan
          /\ fs' = IF raised THEN fs ELSE WithTempFiles(fs, renames, clock)
          /\ last' = [op |-> "plan", planner |-> "edits_for_rearrange", fs |-> fs,
                      renames |-> renames, all_moves |-> AllMoves(<<>>, renames),
                      error |-> IF raised THEN "ValueError" ELSE None,
                      back |-> last.op = "change",
                      start |-> IF last.op = "change" THEN last.fs ELSE fs]
    /\ UNCHANGED <<clock, cacheVars>>

\* list(edits_for_raw_moves(renames))
PlanRawMoves(renames) ==
    /\ last.op = "init"
    /\ edits' = edits_for_raw_moves(fs, renames)
    /\ fs' = WithTempFiles(fs, renames, clock)
    /\ last' = [op |-> "plan", planner |-> "edits_for_raw_moves", fs |-> fs,
                renames |-> renames, all_moves |-> renames, error |-> None,
                back |-> FALSE, start |-> fs]
    /\ UNCHANGED <<clock, cacheVars>>

\* DirectRepo.change(edits) with the plan
change ==
    /\ last.op = "plan"
    /\ last.error = None
    /\ clock' = clock + 1
    /\ LET out == DirectChange(fs, edits, clock')
       IN /\ fs' = out.fs
          /\ last' = [last EXCEPT !.op = "change", !.error = out.error]
    /\ edits' = <<>>
    /\ UNCHANGED cacheVars

NextRearrange ==
    \/ \E renames \in RenameMaps \cup {Back(r) : r \in RenameMaps} : PlanRearrange(renames)
    \/ \E renames \in RenameMaps : PlanRawMoves(renames)
    \/ change

SpecRearrange == InitRearrange /\ [][NextRearrange]_vars

-----------------------------------------------------------------------------
(* The change model: an edit list is applied to a notes directory.         *)

\* the longest edit list handed to change()
MaxEdits == 3

\* a file no accessor can edit (MiscAccessor)
NotesTxt == <<"n", "f.txt">>

\* the notes directories an edit list may be applied to
ChangeFs ==
    {[p \in {<<"n">>, NotesA} \cup S |->
         CASE p = <<"n">> -> DirNode
           [] p = NotesA -> FileNode(d, 1, 1)
           [] p = NotesB -> FileNode(DocToA, 1, 1)
           [] OTHER -> FileNode(DocPlain, 1, 1)] :
        S \in SUBSET {NotesB, NotesTxt}, d \in {DocToB, DocToBTwice}}

\* the commands of the edit lists
EditCmds ==
    {ReplaceHrefCmd(NotesA, Rel(<<"b.md">>), Rel(<<"c.md">>)),
     ReplaceHrefCmd(NotesA, Rel(<<"c.md">>), Rel(<<"a.md">>)),
     ReplaceHrefCmd(NotesB, Rel(<<"a.md">>), Rel(<<"c.md">>)),
     ReplaceHrefCmd(NotesTxt, Rel(<<"a.md">>), Rel(<<"b.md">>)),
     MoveCmd(NotesA, NotesC),
     CreateCmd(NotesB, DocToB)}

EditLists == UNION {[1..n -> EditCmds] : n \in 1..MaxEdits}

InitChange ==
    /\ fs \in ChangeFs
    /\ clock = 1
    /\ files = {}
    /\ file_tags = {}
    /\ file_links = EmptyBag
    /\ needs_refresh = TRUE
    /\ edits = <<>>
    /\ last = [op |-> "init"]

\* DirectRepo.change(planned)
ChangeEdits(planned) ==
    /\ last.op = "init"
    /\ clock' = clock + 1
    /\ LET out == DirectChange(fs, planned, clock')
       IN /\ fs' = out.fs
          /\ last' = [op |-> "change", edits |-> planned, fs |-> fs,
                      error |-> out.error]
    /\ UNCHANGED <<cacheVars, edits>>

NextChange == \E planned \in EditLists : ChangeEdits(planned)

SpecChange == InitChange /\ [][NextChange]_vars

-----------------------------------------------------------------------------
(* The parse model: reads of a notes directory that may hold a file no     *)
(* accessor can parse.                                                     *)

\* the content of a file that cannot be read as text (bytes that are not
\* valid UTF-8): open(...).read() in MarkdownAccessor._load raises
DocBad == [title |-> None, created |-> None, tags |-> {}, lines |-> <<>>, bad |-> TRUE]

\* DirectRepo.info raises: the file is not skipped, exists, and its accessor
\* raises on load; nothing between the accessor and the caller catches it
InfoRaises(path, skip) ==
    /\ ~skip
    /\ isfile(path)
    /\ IsMarkdown(path)
    /\ "bad" \in DOMAIN fs[path].doc

\* DirectRepo.query raises: info() of one of the walked files raises
QueryRaises == \E e \in _paths : InfoRaises(e.path, e.skip_parse)

\* the entries of the walk at which _refresh raises: those it parses (no
\* record with the same signature, no record of a skip_parse path) and
\* whose info() raises
RaisingVisits(prior, order) ==
    {i \in DOMAIN order :
        LET row == RowByPath(prior, order[i].path)
        IN /\ ~(row # NoRow /\ order[i].skip_parse)
           /\ ~(/\ row # NoRow
                /\ row.stat_ctime = fs[order[i].path].stat.st_ctime
                /\ row.stat_mtime = fs[order[i].path].stat.st_mtime
                /\ row.stat_size = fs[order[i].path].stat.st_size)
           /\ InfoRaises(order[i].path, order[i].skip_parse)}

\* the notes directories of the parse model
ParseFs ==
    {f \in UNION {[S \cup {<<"n">>} -> {DirNode} \cup
                       {FileNode(d, 1, 1) : d \in {DocToB, DocToA, DocBad}}]
                  : S \in SUBSET CachePaths} :
        /\ f[<<"n">>] = DirNode
        /\ \A p \in DOMAIN f \ {<<"n">>} : f[p] # DirNode
        /\ NotesSkip \in DOMAIN f => f[NotesSkip].doc = DocBad}

InitParse ==
    /\ fs \in ParseFs
    /\ clock = 1
    /\ files = {}
    /\ file_tags = {}
    /\ file_links = EmptyBag
    /\ needs_refresh = TRUE
    /\ edits = <<>>
    /\ last = [op |-> "init"]

\* DirectRepo.info(path), with backlinks when asked for
DirectRepoInfo(path, backlinks) ==
    /\ last' = IF InfoRaises(path, _should_skip_parse(path)) \/ (backlinks /\ QueryRaises)
               THEN [op |-> "info", path |-> path, error |-> "ParseError"]
               ELSE [op |-> "info", path |-> path, error |-> None,
                     result |-> DirectInfo(path, backlinks)]
    /\ UNCHANGED <<fs, clock, cacheVars, edits>>

\* list(DirectRepo.query())
DirectRepoQuery ==
    /\ last' = IF QueryRaises
               THEN [op |-> "query", error |-> "ParseError"]
               ELSE [op |-> "query", error |-> None,
                     result |-> DirectQuery(FileQuery({}, {}))]
    /\ UNCHANGED <<fs, clock, cacheVars, edits>>

\* SqliteRepo._refresh_if_needed, the walk in the given order: when info()
\* raises, the rows written so far stay in the open transaction (the same
\* connection reads them), nothing of the second and third loop is run, and
\* _needs_refresh stays set
RefreshOrRaise(order) ==
    /\ needs_refresh
    /\ LET start == [files |-> files, file_tags |-> file_tags, file_links |-> file_links,
                     found_paths |-> {}, ids_by_path |-> {}, links_to_add |-> <<>>,
                     parsed |-> {}]
           raising == RaisingVisits(files, order)
       IN IF raising = {}
          THEN LET walked == RefreshVisits(files, start, order)
                   scanned == RefreshLinks(files, walked, walked.links_to_add)
               IN \E deletes \in Perms(ids_to_delete(scanned)) :
                      LET done == RefreshDeletes(scanned, deletes)
                      IN /\ files' = done.files
                         /\ file_tags' = done.file_tags
                         /\ file_links' = done.file_links
                         /\ needs_refresh' = FALSE
                         /\ last' = [op |-> "refresh", error |-> None]
          ELSE LET first == CHOOSE i \in raising : \A j \in raising : i <= j
                   done == RefreshVisits(files, start, SubSeq(order, 1, first - 1))
               IN /\ files' = done.files
                  /\ file_tags' = done.file_tags
                  /\ file_links' = done.file_links
                  /\ needs_refresh' = TRUE
                  /\ last' = [op |-> "refresh", error |-> "ParseError"]
    /\ UNCHANGED <<fs, clock, edits>>

NextParse ==
    \/ \E path \in CachePaths : \E backlinks \in BOOLEAN : DirectRepoInfo(path, backlinks)
    \/ DirectRepoQuery
    \/ \E order \in Perms(_paths) : RefreshOrRaise(order)

SpecParse == InitParse /\ [][NextParse]_vars

-----------------------------------------------------------------------------
(* The ignore model: a filesystem with hidden files changes under both      *)
(* repositories.                                                            *)

IgnorePaths == {NotesA, NotesH, NotesIB}

\* what is written to a file of the ignore model
IgnoreDocs(p) ==
    CASE p = NotesA -> {DocPlain, DocToHidden}
      [] p = NotesH -> {DocToA, DocToHidden}
      [] OTHER -> {DocUpToA}

\* the notes directories of the ignore model: the hidden directory is there
IgnoreFs ==
    {[p \in S \cup {<<"n">>, NotesI} |->
         IF p \in S THEN FileNode(c[p], 1, 1) ELSE DirNode] :
        S \in SUBSET IgnorePaths,
        c \in [IgnorePaths -> {DocPlain, DocToHidden, DocToA, DocUpToA}]}

InitIgnore ==
    /\ fs \in {f \in IgnoreFs : \A p \in IgnorePaths \cap DOMAIN f : f[p].doc \in IgnoreDocs(p)}
    /\ clock = 1
    /\ files = {}
    /\ file_tags = {}
    /\ file_links = EmptyBag
    /\ needs_refresh = TRUE
    /\ edits = <<>>
    /\ last = [op |-> "init"]

NextIgnore ==
    \/ \E p \in IgnorePaths : \E doc \in IgnoreDocs(p) : WriteFile(p, doc)
    \/ \E p \in IgnorePaths : DeleteFile(p)
    \/ \E p, q \in IgnorePaths : RenameFile(p, q)
    \/ invalidate
    \/ _refresh_if_needed

SpecIgnore == InitIgnore /\ [][NextIgnore]_vars

-----------------------------------------------------------------------------
(* The href model: a path is written as an href and the href is resolved.   *)

\* urllib.parse.urlunparse: the text of an href, character by character
urlunparse(url) == Flatten([i \in DOMAIN HrefStr(url) |-> Chars(HrefStr(url)[i])])

\* where the character first occurs in the text, or just past its end
FirstAt(text, char) ==
    IF \E i \in DOMAIN text : text[i] = char
    THEN CHOOSE i \in DOMAIN text : text[i] = char /\ \A j \in 1..(i - 1) : text[j] # char
    ELSE Len(text) + 1

\* the segments between the slashes of a path
RECURSIVE SplitSlash(_, _)
SplitSlash(text, seg) ==
    IF text = <<>> THEN (IF seg = <<>> THEN <<>> ELSE <<Concat(seg)>>)
    ELSE IF Head(text) = "/"
         THEN (IF seg = <<>> THEN <<>> ELSE <<Concat(seg)>>) \o SplitSlash(Tail(text), <<>>)
         ELSE SplitSlash(Tail(text), Append(seg, Head(text)))

\* a netloc urlparse raises ValueError on ("Invalid IPv6 URL": a bracket
\* that is not closed)
InvalidNetlocs == {"no["}

\* urllib.parse.urlparse: the scheme and the netloc are taken off the front,
\* the fragment is what follows the first "#", the query what follows the
\* first "?" before it
urlparse(text) ==
    LET schemed == text # <<>> /\ text[1] \in {"file:", "https:"}
        rest == IF schemed THEN Tail(text) ELSE text
        hosted == rest # <<>> /\ rest[1] = "//"
        tail == IF hosted THEN SubSeq(rest, 3, Len(rest)) ELSE rest
        hash == FirstAt(tail, "#")
        front == SubSeq(tail, 1, hash - 1)
        mark == FirstAt(front, "?")
        path == SubSeq(front, 1, mark - 1)
    IN IF hosted /\ rest[2] \in InvalidNetlocs THEN ValueError
       ELSE
       Url(IF ~schemed THEN "" ELSE IF text[1] = "file:" THEN "file" ELSE "https",
           IF hosted THEN rest[2] ELSE "",
           path # <<>> /\ path[1] = "/",
           SplitSlash(path, <<>>),
           Concat(SubSeq(front, mark + 1, Len(front))),
           Concat(SubSeq(tail, hash + 1, Len(tail))))

HrefDirs == {<<"n">>, <<"n", "d">>, <<"n", "x y.md">>}

HrefNames == {"a.md", "x y.md", "x+y.md", "p%q.md", "h#i.md", "q?r.md", "z!.md"}

\* the files an href may be written in and may lead to
HrefPaths == {Append(dir, name) : dir \in HrefDirs, name \in HrefNames}

\* the hrefs a new path may be put into (NoHref: into none)
IntoUrls ==
    {NoHref, Rel(<<"b.md">>), RelFrag(<<"b.md">>, "foo"), RelFrag(<<>>, "foo"),
     Url("", "", FALSE, <<"x%20y.md">>, "x+y.md", "x%20y.md"),
     Url("", "", TRUE, <<"n", "b.md">>, "foo", ""),
     FileUrl(<<"n", "b.md">>)}

InitHref ==
    /\ fs = (<<"n">> :> DirNode)
    /\ clock = 1
    /\ files = {}
    /\ file_tags = {}
    /\ file_links = EmptyBag
    /\ needs_refresh = TRUE
    /\ edits = <<>>
    /\ last = [op |-> "init"]

\* LinkInfo(src, path_as_href(href_path(src, dest), into_url)).referent():
\* the href is written out as text and parsed again when it is resolved
ResolveHref(src, dest, into_url) ==
    /\ last.op = "init"
    /\ LET href == path_as_href(href_path(src, dest), into_url)
           read == urlparse(urlunparse(href))
       IN last' = [op |-> "href", src |-> src, dest |-> dest, into_url |-> into_url,
                   href |-> IF href = ValueError THEN ValueError ELSE read,
                   referent |-> IF href = ValueError THEN NonePath
                                ELSE referent(LinkInfo(src, read))]
    /\ UNCHANGED <<fs, clock, cacheVars, edits>>

\* the hrefs found in a document: with or without a scheme, a host, a
\* leading slash, a query and a fragment
FoundHrefs ==
    {h \in {Url(scheme, netloc, abs, segs, query, frag) :
                scheme \in {"", "file", "https"},
                netloc \in {"", "localhost", "e"} \cup InvalidNetlocs,
                abs \in BOOLEAN,
                segs \in {<<>>, <<"a.md">>, <<"..", "a.md">>, <<"x%20y.md">>, <<"x+y.md">>,
                          <<"d", ".", "z%21.md">>},
                query \in {"", "foo"}, frag \in {"", "foo"}} :
        (h.scheme # "" \/ h.netloc # "") => (h.abs \/ h.segs = <<>>)}

\* LinkInfo(referrer, href).referent(): urlparse reads the text of the href,
\* and a ValueError it raises is caught
LinkInfoReferent(referrer, href) ==
    /\ last.op = "init"
    /\ LET url == urlparse(urlunparse(href))
       IN last' = [op |-> "referent", referrer |-> referrer, href |-> href,
                   url |-> url,
                   referent |-> IF url = ValueError THEN NonePath
                                ELSE referent(LinkInfo(referrer, url))]
    /\ UNCHANGED <<fs, clock, cacheVars, edits>>

NextHref ==
    \/ \E src, dest \in HrefPaths : \E into_url \in IntoUrls : ResolveHref(src, dest, into_url)
    \/ \E referrer \in {<<"n", "a.md">>, <<"n", "d", "a.md">>} : \E href \in FoundHrefs :
           LinkInfoReferent(referrer, href)

SpecHref == InitHref /\ [][NextHref]_vars

-----------------------------------------------------------------------------
(* The sorting model: FileQuery.apply_sorting on a list of FileInfo.        *)

FileQuerySort(field, reverse, ignore_case, missing_first) ==
    [field |-> field, reverse |-> reverse, ignore_case |-> ignore_case,
     missing_first |-> missing_first]

Created0 == "2010-01-15T00:00:00"

\* datetime(1, 1, 1), the dates of the model and datetime(9999, 12, 31, 23,
\* 59, 59, 999999), in the order of datetime
Dates == <<"0001-01-01T00:00:00", Created0, Created1, "9999-12-31T23:59:59.999999">>

DateRank(date) == CHOOSE i \in DOMAIN Dates : Dates[i] = date

\* str.lower
lower(str) ==
    CASE str = "B" -> "b"
      [] str = "B.md" -> "b.md"
      [] OTHER -> str

\* FileQuerySort.key: a number, or a string as its tokens (chr(0x10ffff) is
\* in no table and so comes after every other string)
key(sort, info) ==
    CASE sort.field = "backlinks" -> [num |-> Len(info.backlinks), str |-> <<>>]
      [] sort.field = "created" ->
            [num |-> DateRank(IF info.created # None THEN info.created
                              ELSE IF sort.missing_first THEN Dates[1]
                              ELSE Dates[Len(Dates)]),
             str |-> <<>>]
      [] sort.field = "filename" ->
            [num |-> 0,
             str |-> <<IF sort.ignore_case THEN lower(Basename(info.path))
                       ELSE Basename(info.path)>>]
      [] sort.field = "path" ->
            [num |-> 0,
             str |-> PathStr(IF sort.ignore_case
                             THEN [i \in DOMAIN info.path |-> lower(info.path[i])]
                             ELSE info.path)]
      [] sort.field = "tags" -> [num |-> Cardinality(info.tags), str |-> <<>>]
      [] sort.field = "title" ->
            [num |-> 0,
             str |-> IF info.title \notin {None, ""}
                     THEN <<IF sort.ignore_case THEN lower(info.title) ELSE info.title>>
                     ELSE IF sort.missing_first THEN <<>> ELSE <<"U+10FFFF">>]

\* the order of two keys of one field
KeyLess(k, l) == k.num < l.num \/ (k.num = l.num /\ StrLess(k.str, l.str))

\* list.sort(key=sort.key, reverse=sort.reverse) puts a before b
SortsBefore(sort, a, b) ==
    IF sort.reverse THEN KeyLess(key(sort, b), key(sort, a))
    ELSE KeyLess(key(sort, a), key(sort, b))

\* list.sort is stable, also with reverse=True: an element goes behind every
\* element it does not sort before
RECURSIVE ListSort(_, _)
ListSort(result, sort) ==
    IF result = <<>> THEN <<>>
    ELSE LET sorted == ListSort(SubSeq(result, 1, Len(result) - 1), sort)
             info == result[Len(result)]
             behind == {i \in DOMAIN sorted : SortsBefore(sort, info, sorted[i])}
             at == IF behind = {} THEN Len(sorted) + 1
                   ELSE CHOOSE i \in behind : \A j \in behind : i <= j
         IN SubSeq(sorted, 1, at - 1) \o <<info>> \o SubSeq(sorted, at, Len(sorted))

\* apply_sorting with the keys taken first to last
SortByInOrder(sort_by, infos) ==
    LET RECURSIVE Go(_, _)
        Go(sorts, result) ==
            IF sorts = <<>> THEN result ELSE Go(Tail(sorts), ListSort(result, Head(sorts)))
    IN Go(sort_by, infos)

\* FileQuery.apply_sorting: one list.sort for each key, the last key first
RECURSIVE apply_sorting(_, _)
apply_sorting(sort_by, infos) ==
    IF sort_by = <<>> THEN infos
    ELSE ListSort(apply_sorting(Tail(sort_by), infos), Head(sort_by))

MaxInfos == 3

\* the infos that are sorted: with and without title and created, names that
\* differ in case only, one file name in two directories
SortInfos ==
    LET link == LinkInfo(NotesT, Rel(<<"a.md">>))
    IN {[FileInfo(NotesA) EXCEPT !.backlinks = <<link>>],
        [FileInfo(<<"n", "B.md">>) EXCEPT !.title = "B", !.created = Created0,
                                         !.tags = {"x"}],
        [FileInfo(NotesB) EXCEPT !.title = "b", !.created = Created1, !.tags = {"x", "y"}],
        [FileInfo(<<"n", "d", "a.md">>) EXCEPT !.title = "a", !.created = Created1,
                                              !.backlinks = <<link, link>>],
        [FileInfo(NotesC) EXCEPT !.title = "", !.tags = {"y"}]}

\* the sort keys: every field, with the flags that field reads
SortKeys ==
    {FileQuerySort(f, r, TRUE, FALSE) : f \in {"backlinks", "tags"}, r \in BOOLEAN}
    \cup {FileQuerySort("created", r, TRUE, m) : r \in BOOLEAN, m \in BOOLEAN}
    \cup {FileQuerySort(f, r, i, FALSE) : f \in {"filename", "path"}, r \in BOOLEAN,
                                          i \in BOOLEAN}
    \cup {FileQuerySort("title", r, i, m) : r \in BOOLEAN, i \in BOOLEAN, m \in BOOLEAN}

\* sort_by: no key, one key, or two keys of different fields (the second
\* with the default flags, but for reverse)
SortLists ==
    {<<>>} \cup {<<s>> : s \in SortKeys}
    \cup {k \in {<<s, t>> : s \in SortKeys, t \in SortKeys} :
              k[1].field # k[2].field /\ k[2].ignore_case /\ ~k[2].missing_first}

InitSort ==
    /\ fs = (<<"n">> :> DirNode)
    /\ clock = 1
    /\ files = {}
    /\ file_tags = {}
    /\ file_links = EmptyBag
    /\ needs_refresh = TRUE
    /\ edits = <<>>
    /\ \E n \in 0..MaxInfos : \E infos \in [1..n -> SortInfos] :
          last = [op |-> "init", infos |-> infos]

\* FileQuery(sort_by=sort_by).apply_sorting(infos)
ApplySorting(sort_by) ==
    /\ last.op = "init"
    /\ last' = [op |-> "sort", sort_by |-> sort_by, infos |-> last.infos,
                result |-> apply_sorting(sort_by, last.infos)]
    /\ UNCHANGED <<fs, clock, cacheVars, edits>>

NextSort == \E sort_by \in SortLists : ApplySorting(sort_by)

SpecSort == InitSort /\ [][NextSort]_vars

-----------------------------------------------------------------------------
(* The move model: Notesdir.move and Notesdir.replace_path_hrefs on a      *)
(* notes directory, through a SqliteRepo whose cache starts empty (what    *)
(* the planner reads from it after its first refresh is what is on disk).  *)

NotesDC == <<"n", "d", "c.md">>

\* the two values shortuuid.uuid() may return
UUIDs == {"1", "2"}

\* dest.name.split('.', 1) and the name with_name() is given
with_uuid(name, uuid) ==
    LET parts == CASE name = "a.md" -> <<"a", "md">>
                   [] name = "b.md" -> <<"b", "md">>
                   [] name = "c.md" -> <<"c", "md">>
                   [] OTHER -> <<name>>
        suffix == IF Len(parts) > 1 THEN "." \o parts[2] ELSE ""
    IN parts[1] \o "_" \o uuid \o suffix

\* _find_available_name without its loop: the destination as given
NameAsGiven(f, dest, also_unavailable, uuid) == dest

\* _find_available_name: the loop draws uuid first, and the other value if
\* the name that gives is taken too
_find_available_name(f, dest, also_unavailable, uuid) ==
    LET taken(p) == p \in also_unavailable \/ ExistsIn(f, p)
        named(u) == Append(Parent(dest), with_uuid(Basename(dest), u))
        other == CHOOSE u \in UUIDs : u # uuid
    IN IF ~taken(dest) THEN dest
       ELSE IF ~taken(named(uuid)) THEN named(uuid)
       ELSE named(other)

\* Path.mkdir(exist_ok=True, parents=True)
RECURSIVE mkdir(_, _)
mkdir(f, dir) ==
    IF IsDirIn(f, dir) \/ dir = <<>> THEN Outcome(f, None)
    ELSE IF IsFileIn(f, dir) THEN Outcome(f, "FileExistsError")
    ELSE LET up == mkdir(f, Parent(dir))
         IN IF up.error # None THEN up
            ELSE IF IsFileIn(up.fs, Parent(dir)) THEN Outcome(up.fs, "NotADirectoryError")
            ELSE Outcome([p \in DOMAIN up.fs \cup {dir} |->
                             IF p = dir THEN DirNode ELSE up.fs[p]], None)

\* Notesdir.move, the loop over moves.items(): final_moves, unavailable, and
\* the directories made on the way
RECURSIVE MoveLoop(_, _, _, _, _)
MoveLoop(st, moves, check_exists, create_missing_dirs, uuids) ==
    IF moves = <<>> \/ st.error # None THEN st
    ELSE LET src == Head(moves)[1]
             given == Head(moves)[2]
             into == IF IsDirIn(st.fs, given) THEN Append(given, Basename(src)) ELSE given
             dest == IF check_exists
                     THEN _find_available_name(st.fs, into, st.unavailable, Head(uuids))
                     ELSE into
             made == IF create_missing_dirs THEN mkdir(st.fs, Parent(dest))
                     ELSE Outcome(st.fs, None)
         IN IF ~ExistsIn(st.fs, src) THEN [st EXCEPT !.error = "FileNotFoundError"]
            ELSE MoveLoop([final_moves |-> Put(st.final_moves, src, dest),
                           unavailable |-> st.unavailable \cup {dest},
                           fs |-> made.fs, error |-> made.error],
                          Tail(moves), check_exists, create_missing_dirs, Tail(uuids))

\* DirectRepo.change under conf.preview_mode: the commands are printed
RepoChange(f, planned, now, preview_mode) ==
    IF preview_mode THEN Outcome(f, None) ELSE DirectChange(f, planned, now)

\* a title in a metadata block that ends with three dashes; [a](../a.md) and
\* [o](https://e/o) on one line, [b](b.md) on the next
DocUpAndWeb ==
    [title |-> "T", created |-> None, tags |-> {},
     lines |-> << <<Rel(<<"..", "a.md">>), WebUrl>>, <<Rel(<<"b.md">>)>> >>,
     meta_end |-> "---"]

\* the notes directories of the move model
MoveFs ==
    {[p \in S \cup {<<"n">>, NotesE, NotesA, NotesEC} |->
         CASE p = NotesA -> FileNode(a, 1, 1)
           [] p = NotesB -> FileNode(b, 1, 1)
           [] p = NotesEC -> FileNode(c, 1, 1)
           [] OTHER -> DirNode] :
        S \in SUBSET {NotesB}, a \in {DocToAAndB, DocSpellings}, b \in {DocPlain, DocToA},
        c \in {DocPlain, DocUpAndWeb}}

\* the dicts given to Notesdir.move: one entry (a file, or a directory), or
\* two (a swap, a chain, two sources for one destination, an entry onto
\* itself with another)
MoveMaps ==
    {<< <<s, d>> >> : s \in {NotesA, NotesB},
                      d \in {NotesA, NotesB, NotesC, <<"n">>, NotesE, NotesEC, NotesDC}}
    \cup {<< <<NotesE, NotesD>> >>,
          << <<NotesA, NotesB>>, <<NotesB, NotesA>> >>,
          << <<NotesA, NotesB>>, <<NotesB, NotesC>> >>,
          << <<NotesA, NotesC>>, <<NotesB, NotesC>> >>,
          << <<NotesA, NotesA>>, <<NotesB, <<"n">> >> >>}

InitMove ==
    /\ fs \in MoveFs
    /\ clock = 1
    /\ files = {}
    /\ file_tags = {}
    /\ file_links = EmptyBag
    /\ needs_refresh = TRUE
    /\ edits = <<>>
    /\ last = [op |-> "init"]

\* the repository reads (info with backlinks): _refresh_if_needed first
ReadThroughCache(order) ==
    LET done == _refresh(order)
    IN /\ files' = done.files
       /\ file_tags' = done.file_tags
       /\ file_links' = done.file_links

\* Notesdir.move(moves, check_exists=..., create_missing_dirs=...) with
\* conf.preview_mode as the command line has set it (delete_empty_dirs is
\* left at its default, False).  The plan is consumed inside
\* SqliteRepo.change, whose finally clause invalidates unless in preview.
NotesdirMove(given, check_exists, create_missing_dirs, preview_mode, uuids) ==
    /\ last.op = "init"
    /\ clock' = clock + 1
    /\ LET moves == SelectSeq(given, LAMBDA item : item[1] # item[2])
           st == MoveLoop([final_moves |-> <<>>, unavailable |-> {}, fs |-> fs,
                           error |-> None],
                          moves, check_exists, create_missing_dirs, uuids)
           plan == edits_for_rearrange(st.final_moves)
           raised == \E i \in DOMAIN plan : plan[i].replacement = ValueError
           out == IF raised THEN Outcome(st.fs, "ValueError")
                  ELSE RepoChange(WithTempFiles(st.fs, st.final_moves, clock),
                                  plan, clock', preview_mode)
           record == [op |-> "move", moves |-> given, check_exists |-> check_exists,
                      create_missing_dirs |-> create_missing_dirs,
                      preview_mode |-> preview_mode, fs |-> fs,
                      all_moves |-> IF st.error = None
                                    THEN AllMoves(<<>>, st.final_moves) ELSE <<>>]
       IN IF moves = <<>>
          THEN /\ last' = record @@
                          [returned |-> <<>>, planned |-> <<>>, error |-> None,
                           needs_refresh |-> needs_refresh]
               /\ UNCHANGED <<fs, cacheVars>>
          ELSE IF st.error # None
          THEN /\ last' = record @@ [returned |-> <<>>, planned |-> <<>>,
                                     error |-> st.error, needs_refresh |-> needs_refresh]
               /\ fs' = st.fs
               /\ UNCHANGED cacheVars
          ELSE /\ last' = record @@ [returned |-> IF out.error = None
                                                  THEN st.final_moves ELSE <<>>,
                                     planned |-> IF raised THEN <<>> ELSE plan,
                                     error |-> out.error, needs_refresh |-> FALSE]
               /\ fs' = out.fs
               /\ \E order \in Perms(ids_to_delete(RefreshScanned)) : ReadThroughCache(order)
               /\ needs_refresh' = ~preview_mode
    /\ UNCHANGED edits

\* Notesdir.replace_path_hrefs(original, replacement)
replace_path_hrefs(original, replacement, preview_mode) ==
    /\ last.op = "init"
    /\ clock' = clock + 1
    /\ LET backlinks == DirectInfo(original, TRUE).backlinks
           plan == Flatten([i \in DOMAIN backlinks |->
                       edits_for_path_replacement(backlinks[i].referrer,
                                                  backlinks[i].href, replacement)])
           raised == \E i \in DOMAIN plan : plan[i].replacement = ValueError
           out == IF raised THEN Outcome(fs, "ValueError")
                  ELSE RepoChange(fs, plan, clock', preview_mode)
       IN /\ last' = [op |-> "relink", original |-> original,
                      replacement |-> replacement, preview_mode |-> preview_mode,
                      fs |-> fs, planned |-> IF raised THEN <<>> ELSE plan,
                      error |-> out.error, needs_refresh |-> FALSE]
          /\ fs' = out.fs
          /\ \E order \in Perms(ids_to_delete(RefreshScanned)) : ReadThroughCache(order)
          /\ needs_refresh' = IF plan = <<>> \/ raised THEN FALSE ELSE ~preview_mode
    /\ UNCHANGED edits

NextMove ==
    \/ \E given \in MoveMaps : \E check_exists, create_missing_dirs, preview_mode \in BOOLEAN :
           \E uuids \in [1..2 -> UUIDs] :
               NotesdirMove(given, check_exists, create_missing_dirs, preview_mode, uuids)
    \/ \E original \in {NotesA, NotesB} : \E replacement \in {NotesC, NotesEC} :
           \E preview_mode \in BOOLEAN :
               replace_path_hrefs(original, replacement, preview_mode)

SpecMove == InitMove /\ [][NextMove]_vars

-----------------------------------------------------------------------------
(* The generator model: change() draws the plan of edits_for_rearrange     *)
(* edit by edit while it groups it, and applies the groups one by one.     *)

\* a generator version of _group_edits: a group is handed over as soon as the
\* next one starts
YieldedSoFar(result, exhausted) ==
    IF exhausted \/ result = <<>> THEN result ELSE SubSeq(result, 1, Len(result) - 1)

\* _group_edits builds a list and returns it when its for loop over the edits
\* is over: what DirectRepo.change can iterate over
Returned(result, exhausted) == IF exhausted THEN result ELSE <<>>

InitLazy ==
    /\ fs \in RearrangeFs
    /\ clock = 1
    /\ files = {}
    /\ file_tags = {}
    /\ file_links = EmptyBag
    /\ needs_refresh = TRUE
    /\ edits = <<>>
    /\ last = [op |-> "init"]

\* Notesdir.move: edits = edits_for_rearrange(self.repo, final_moves) makes the
\* generator (none of its body runs), self.repo.change(edits) enters
\* _group_edits
CallChange(renames) ==
    /\ last.op = "init"
    /\ last' = [op |-> "change", renames |-> renames, fs |-> fs,
                whole |-> edits_for_rearrange(renames),
                all_moves |-> <<>>, at |-> 1, exhausted |-> FALSE,
                result |-> <<>>, applied |-> 0, reads |-> {}, error |-> None]
    /\ UNCHANGED <<fs, clock, cacheVars, edits>>

\* the for loop of _group_edits draws from the generator up to its next
\* lookup: the first draw builds all_moves, every draw but the last asks the
\* repository for one moved path and yields its ReplaceHrefCmds, the last runs
\* edits_for_raw_moves (existence checks, mkstemp) and ends the generator
DrawEdits ==
    /\ last.op = "change"
    /\ last.error = None
    /\ ~last.exhausted
    /\ LET all_moves == IF last.at = 1 THEN AllMoves(<<>>, last.renames)
                        ELSE last.all_moves
           final == last.at > Len(all_moves)
           yielded == IF final THEN edits_for_raw_moves(fs, last.renames)
                      ELSE Outbound(all_moves, all_moves[last.at][1], all_moves[last.at][2])
                           \o Inbound(all_moves, all_moves[last.at][1],
                                      all_moves[last.at][2])
           raised == \E i \in DOMAIN yielded : yielded[i].replacement = ValueError
       IN /\ last' = [last EXCEPT
                          !.all_moves = all_moves,
                          !.at = @ + 1,
                          !.exhausted = final,
                          !.result = IF raised THEN @ ELSE _group_edits(@, yielded),
                          !.reads = @ \cup {last.applied},
                          !.error = IF raised THEN "ValueError" ELSE None]
          /\ fs' = IF final THEN WithTempFiles(fs, last.renames, clock) ELSE fs
    /\ UNCHANGED <<clock, cacheVars, edits>>

\* DirectRepo.change: the body of for group in _group_edits(edits), once
ApplyGroup ==
    /\ last.op = "change"
    /\ last.error = None
    /\ last.applied < Len(Returned(last.result, last.exhausted))
    /\ clock' = clock + 1
    /\ LET out == ChangeGroup(fs, Returned(last.result, last.exhausted)[last.applied + 1],
                              clock')
       IN /\ fs' = out.fs
          /\ last' = [last EXCEPT !.applied = @ + 1, !.error = out.error]
    /\ UNCHANGED <<cacheVars, edits>>

NextLazy ==
    \/ \E renames \in RenameMaps : CallChange(renames)
    \/ DrawEdits
    \/ ApplyGroup

SpecLazy == InitLazy /\ [][NextLazy]_vars

-----------------------------------------------------------------------------
(* Claims about the cache.                                                 *)

\* the tag filters of a query
TagFilters == {FileQuery(i, e) : i \in SUBSET {"x", "y"}, e \in SUBSET {"x", "y"}}

\* a refresh has just completed (nothing has touched the disk since)
Refreshed == last.op = "refresh"

\* the rows of file_links from one record to another
LinkRowsBetween(links, referrer_id, referent_id) ==
    {l \in DOMAIN links : l.referrer_id = referrer_id /\ l.referent_id = referent_id}

\* the files the walk finds that are parsed for links, and link to the path
ReferrersOnDisk(path) ==
    {e.path : e \in {d \in _paths :
        /\ ~d.skip_parse
        /\ \E i \in DOMAIN AccessorInfo(d.path).links :
              referent(AccessorInfo(d.path).links[i]) = path}}

\* C1: after a refresh, SqliteRepo.query() yields the same FileInfo (path,
\* title, created, tags, links) as DirectRepo.query() on the same filesystem,
\* for every tag filter.
C1_CacheEquivalence ==
    Refreshed => \A q \in TagFilters : SqliteQuery(q) = DirectQuery(q)

\* C7: when a file F that had a record is gone from the disk while a file R
\* under the roots still links to it, then after the refresh a phantom record
\* (existent = FALSE) for F exists, R's link rows point to it and
\* info(F).backlinks holds R's links.
C7_BacklinkPersistence ==
    Refreshed =>
        \A old \in last.files :
            (old.existent /\ ~exists(old.path)) =>
                \A R \in ReferrersOnDisk(old.path) :
                    /\ \E r \in files : r.path = old.path /\ ~r.existent
                    /\ LinkRowsBetween(file_links, RowByPath(files, R).id,
                                       RowByPath(files, old.path).id) # {}
                    /\ \E i \in DOMAIN SqliteInfo(old.path, TRUE).backlinks :
                          SqliteInfo(old.path, TRUE).backlinks[i].referrer = R

\* the backlinks a phantom record had, from referrers whose files are unchanged
KeptBacklinks(old) ==
    {l \in DOMAIN last.file_links :
        /\ l.referent_id = old.id
        /\ \E r \in last.files :
              /\ r.id = l.referrer_id
              /\ isfile(r.path)
              /\ r.stat_ctime = fs[r.path].stat.st_ctime
              /\ r.stat_mtime = fs[r.path].stat.st_mtime
              /\ r.stat_size = fs[r.path].stat.st_size}

\* C8: when a file has been created at a path that had a phantom record, then
\* after the refresh that same record is marked existent with the title,
\* created, tags and links of the file, and info(path).backlinks holds every
\* link that pointed to the path, no referrer having been parsed again.
C8_PhantomPreLinking ==
    Refreshed =>
        \A old \in last.files :
            (~old.existent /\ old.path \in last.walked) =>
                LET now == RowByPath(files, old.path)
                    info == SqliteInfo(old.path, TRUE)
                    disk == DirectInfoOwn(old.path, _should_skip_parse(old.path))
                IN /\ now.id = old.id
                   /\ now.existent
                   /\ info.title = disk.title
                   /\ info.created = disk.created
                   /\ info.tags = disk.tags
                   /\ info.links = disk.links
                   /\ \A l \in KeptBacklinks(old) :
                         /\ RowByPath(last.files, RowByPath(files, old.path).path) = old
                         /\ (CHOOSE r \in last.files : r.id = l.referrer_id).path
                                \notin last.parsed
                         /\ l \in DOMAIN file_links
                         /\ file_links[l] = last.file_links[l]

\* C9: after a refresh, every record whose path the walk did not find on disk
\* is marked existent = FALSE with null signature, title and created, and has
\* no tag rows and no outbound link rows (or it has been deleted).
C9_AbsentRecordsCleared ==
    Refreshed =>
        \A r \in files :
            r.path \notin last.walked =>
                /\ ~r.existent
                /\ r.stat_ctime = NoStat /\ r.stat_mtime = NoStat /\ r.stat_size = NoStat
                /\ r.title = None /\ r.created = None
                /\ \A t \in file_tags : t[1] # r.id
                /\ \A l \in DOMAIN file_links : l.referrer_id # r.id

\* C10: after a refresh, every record marked non-existent has at least one
\* inbound link row.
C10_PhantomsHaveInboundLinks ==
    Refreshed =>
        \A r \in files :
            ~r.existent => \E l \in DOMAIN file_links : l.referent_id = r.id

\* the record's stored signature is the file's current one
SameSignature(r) ==
    /\ isfile(r.path)
    /\ r.stat_ctime = fs[r.path].stat.st_ctime
    /\ r.stat_mtime = fs[r.path].stat.st_mtime
    /\ r.stat_size = fs[r.path].stat.st_size

\* the tag rows of a record
TagRowsOf(tags, id) == {t \in tags : t[1] = id}

\* the outbound link rows of a record, each as often as it occurs
LinkRowsOf(links, id) ==
    [l \in {k \in DOMAIN links : k.referrer_id = id} |-> links[l]]

\* C11: during a refresh, a file the walk finds whose current (ctime, mtime,
\* size) equals the signature stored in its record is not parsed, and its
\* record, its tag rows and its outbound link rows are the same after the
\* refresh as before it.
C11_UnchangedFilesSkipped ==
    Refreshed =>
        \A old \in last.files :
            (old.path \in last.walked /\ SameSignature(old)) =>
                /\ old.path \notin last.parsed
                /\ old \in files
                /\ TagRowsOf(file_tags, old.id) = TagRowsOf(last.file_tags, old.id)
                /\ LinkRowsOf(file_links, old.id) = LinkRowsOf(last.file_links, old.id)

\* an unchanged file with tags and links is skipped by a refresh that parses
\* another file and updates its record
C11_Witness ==
    /\ Refreshed
    /\ \E old \in last.files :
          /\ old.path \in last.walked /\ SameSignature(old)
          /\ TagRowsOf(file_tags, old.id) # {}
          /\ LinkRowsOf(file_links, old.id) # EmptyBag
          /\ \E other \in last.files :
                other.path \in last.parsed /\ other.existent /\ other \notin files

\* how many outbound link rows of a record carry the href
HrefRows(links, id, h) ==
    BagCardinality([l \in {k \in DOMAIN links : k.referrer_id = id /\ k.href = h}
                       |-> links[l]])

\* how many of the links carry the href
Occurrences(links, h) == Cardinality({i \in DOMAIN links : links[i].href = h})

\* the file is new to the cache or its signature differs from the stored one
NewOrChanged(path) ==
    \/ RowByPath(last.files, path) = NoRow
    \/ ~SameSignature(RowByPath(last.files, path))

Answers == [p \in CachePaths |-> SqliteInfo(p, TRUE)]

Listing == SqliteQuery(FileQuery({}, {}))

\* info() and query() show the file as it is on disk
Reflected(path) ==
    LET disk == DirectInfoOwn(path, _should_skip_parse(path))
    IN /\ SqliteInfo(path, FALSE) = disk
       /\ disk \in Listing

\* C14, first half: while no refresh is due, a change made directly on disk
\* leaves what info() and query() answer as it was, and leaves no refresh due.
C14_StaleWhileNoRefreshDue ==
    [][(~needs_refresh /\ fs' # fs) =>
          (~needs_refresh' /\ Answers' = Answers /\ Listing' = Listing)]_vars

\* C14, second half: after the refresh run by the first read that follows
\* invalidate(), info() and query() show every file created or rewritten on
\* disk as it is now.
C14_ReflectedAfterInvalidate ==
    Refreshed => \A path \in last.walked : NewOrChanged(path) => Reflected(path)

\* the refresh was run by the first read after a change() that returned
AfterChange ==
    /\ Refreshed
    /\ last.cause.op = "change"
    /\ last.cause.error = None

\* the info carries no metadata and no links
NoMetadata(info) ==
    /\ info.title = None /\ info.created = None
    /\ info.tags = {} /\ info.links = <<>>

\* every link of the file is among the backlinks of the path it refers to
ListedAsReferrer(path) ==
    LET links == DirectInfoOwn(path, _should_skip_parse(path)).links
    IN \A i \in DOMAIN links :
           referent(links[i]) # NonePath =>
               \E j \in DOMAIN SqliteInfo(referent(links[i]), TRUE).backlinks :
                   SqliteInfo(referent(links[i]), TRUE).backlinks[j] = links[i]

\* C13: after change() has returned, the next read, with no invalidate() by
\* the caller, shows the applied edits: info() of a moved file's old path
\* carries no metadata and query() does not list it; info() and query() show
\* the file at its new path as it is on disk; and the paths its links refer to
\* list it in their backlinks.
C13_ChangeReflected ==
    AfterChange =>
        \A i \in DOMAIN last.cause.edits :
            LET edit == last.cause.edits[i]
            IN edit.cmd = "Move" =>
                  /\ ~exists(edit.path) =>
                        /\ NoMetadata(SqliteInfo(edit.path, FALSE))
                        /\ \A info \in Listing : info.path # edit.path
                  /\ Reflected(edit.dest)
                  /\ ListedAsReferrer(edit.dest)

\* the tags a file on disk has: those of its document if it is parsed
TagsOnDisk(path) ==
    IF IsMarkdown(path) /\ ~_should_skip_parse(path) THEN fs[path].doc.tags ELSE {}

\* the files below the roots, not ignored, that have every tag of the first
\* set and none of the second
FilesTagged(include_tags, exclude_tags) ==
    {path \in DOMAIN fs :
        /\ isfile(path)
        /\ \E root \in root_paths : UnderRoot(path, root)
        /\ include_tags \subseteq TagsOnDisk(path)
        /\ exclude_tags \cap TagsOnDisk(path) = {}}

\* C25: query() with include_tags I and exclude_tags E yields exactly the
\* files that are not ignored, have every tag of I and no tag of E: the
\* direct repository always, the cached one once it is refreshed.
C25_TagFilter ==
    \A q \in TagFilters :
        /\ {info.path : info \in DirectQuery(q)} = FilesTagged(q.include_tags, q.exclude_tags)
        /\ Refreshed =>
              {info.path : info \in SqliteQuery(q)}
                  = FilesTagged(q.include_tags, q.exclude_tags)

-----------------------------------------------------------------------------
(* Claims about rearranging.                                               *)

\* change() has been given the plan of edits_for_rearrange
Changed == last.op = "change" /\ last.planner = "edits_for_rearrange"

\* ... and has returned without raising
Applied == Changed /\ last.error = None

\* where the content of a path is after the moves
NewHome(path) ==
    IF path \in Keys(last.all_moves) THEN Get(last.all_moves, path) ELSE path

\* the positions of the hrefs of a document
Positions(doc) == {<<i, j>> : i \in DOMAIN doc.lines, j \in 1..5} \cap
                  UNION {{<<i, j>> : j \in DOMAIN doc.lines[i]} : i \in DOMAIN doc.lines}

\* what the href at a position of a document resolves to, read from a path
ResolvesTo(path, doc, pos) == referent(LinkInfo(path, doc.lines[pos[1]][pos[2]]))

\* a file that was at path before is now at home, and each of its hrefs that
\* resolved to a local target now resolves to the new home of that target
HrefsFollow(path, home) ==
    /\ IsFileIn(fs, home)
    /\ Positions(fs[home].doc) = Positions(last.fs[path].doc)
    /\ \A pos \in Positions(last.fs[path].doc) :
          ResolvesTo(path, last.fs[path].doc, pos) # NonePath =>
              ResolvesTo(home, fs[home].doc, pos)
                  = NewHome(ResolvesTo(path, last.fs[path].doc, pos))

\* C2: after the plan for the rename map {a: b, b: a} is applied, in every
\* file that is not moved each href that resolved to a resolves to b and each
\* href that resolved to b resolves to a.
C2_SwapThirdParty ==
    (Applied /\ Len(last.renames) = 2
             /\ last.renames[1] = <<last.renames[2][2], last.renames[2][1]>>
             /\ \A k \in 1..2 : IsFileIn(last.fs, last.renames[k][1])) =>
        \A path \in DOMAIN last.fs :
            (IsFileIn(last.fs, path) /\ path \notin Keys(last.all_moves)) =>
                /\ IsFileIn(fs, path)
                /\ \A pos \in Positions(last.fs[path].doc) :
                      \A k \in 1..2 :
                          ResolvesTo(path, last.fs[path].doc, pos) = last.renames[k][1] =>
                              /\ pos \in Positions(fs[path].doc)
                              /\ ResolvesTo(path, fs[path].doc, pos) = last.renames[k][2]

\* the rename maps edits_for_raw_moves is meant for: every destination is
\* nonexistent or itself a source (and lies in an existing directory)
Stageable(f, renames) ==
    \A i \in DOMAIN renames :
        /\ ~ExistsIn(f, renames[i][2]) \/ renames[i][2] \in Keys(renames)
        /\ IsDirIn(f, Parent(renames[i][2]))
        /\ \A j \in DOMAIN renames : i # j => renames[i][2] # renames[j][2]

\* C3: for a rename map with distinct destinations, each nonexistent or itself
\* a source, applying the MoveCmds of edits_for_raw_moves in order leaves what
\* was at each existing source at its destination, nothing overwritten or lost.
C3_RawMovesLoseNothing ==
    (last.op = "change" /\ last.planner = "edits_for_raw_moves"
                        /\ Stageable(last.fs, last.renames)) =>
        /\ last.error = None
        /\ \A i \in DOMAIN last.renames :
              \A path \in DOMAIN last.fs :
                  IsPrefix(last.renames[i][1], path) =>
                      LET home == last.renames[i][2]
                                     \o SubSeq(path, Len(last.renames[i][1]) + 1, Len(path))
                      IN /\ ExistsIn(fs, home)
                         /\ fs[home].kind = last.fs[path].kind
                         /\ IsFileIn(fs, home) => fs[home].doc = last.fs[path].doc
        /\ \A path \in DOMAIN last.fs :
              (\A i \in DOMAIN last.renames : ~IsPrefix(last.renames[i][1], path)) =>
                  ExistsIn(fs, path) /\ fs[path] = last.fs[path]

\* C4: after the plan is applied, every href of a moved file that resolved to
\* a local target resolves, from the new location of the file, to the new home
\* of that target.
C4_OutboundLinks ==
    Applied =>
        \A src \in Keys(last.all_moves) :
            IsFileIn(last.fs, src) => HrefsFollow(src, NewHome(src))

\* C5: after the plan for the renaming of a directory is applied, every href
\* in every file below the directory resolves to the same content as before,
\* and every href of a file outside it that resolved to a path inside it
\* resolves to the corresponding path under the new directory.
C5_DirectoryMove ==
    (Applied /\ Len(last.renames) = 1 /\ IsDirIn(last.fs, last.renames[1][1])) =>
        \A path \in DOMAIN last.fs :
            IsFileIn(last.fs, path) =>
                IF IsUnder(last.renames[1][1], path)
                THEN HrefsFollow(path, NewHome(path))
                ELSE /\ IsFileIn(fs, path)
                     /\ \A pos \in Positions(last.fs[path].doc) :
                           LET target == ResolvesTo(path, last.fs[path].doc, pos)
                           IN (IsUnder(last.renames[1][1], target)
                                  /\ ExistsIn(last.fs, target)) =>
                                  /\ pos \in Positions(fs[path].doc)
                                  /\ ResolvesTo(path, fs[path].doc, pos) = NewHome(target)

\* a destination is an existing file that is not one of the paths being moved
Overwrites(f, renames) ==
    \E i \in DOMAIN renames :
        /\ ExistsIn(f, renames[i][1])
        /\ IsFileIn(f, renames[i][2])
        /\ renames[i][2] \notin Keys(renames)

\* C6: a rearrange that would overwrite an existing file is refused before
\* any edit is applied: change() raises, no href is rewritten in any file and
\* no file is moved.
C6_OverwriteRefused ==
    (Changed /\ Overwrites(last.fs, last.renames)) =>
        /\ last.error # None
        /\ \A path \in DOMAIN last.fs : ExistsIn(fs, path) /\ fs[path] = last.fs[path]

-----------------------------------------------------------------------------
(* Claims about change().                                                  *)

\* an edit list has just been applied
ChangeDone == last.op = "change"

\* the groups change() made of the edit list
Groups == _group_edits(<<>>, last.edits)

\* the group a position of the edit list falls in
GroupOf(k) ==
    CHOOSE g \in DOMAIN Groups :
        /\ Len(Flatten(SubSeq(Groups, 1, g - 1))) < k
        /\ k <= Len(Flatten(SubSeq(Groups, 1, g)))

\* a command that goes through an accessor
ForAccessor(edit) == edit.cmd \notin {"Move", "Create"}

\* C15: change() partitions the edit list, in order, into groups; the
\* commands of a group share one path; consecutive accessor commands with the
\* same path share a group; and every Move or Create command is a group of
\* its own, also when an accessor command with the same path directly follows
\* it.
C15_GroupsPartition ==
    ChangeDone =>
        /\ Flatten(Groups) = last.edits
        /\ \A g \in DOMAIN Groups : \A i \in DOMAIN Groups[g] :
               Groups[g][i].path = Groups[g][1].path
        /\ \A k \in 1..(Len(last.edits) - 1) :
               (/\ ForAccessor(last.edits[k]) /\ ForAccessor(last.edits[k + 1])
                /\ last.edits[k].path = last.edits[k + 1].path)
                   => GroupOf(k) = GroupOf(k + 1)
        /\ \A g \in DOMAIN Groups :
               (\E i \in DOMAIN Groups[g] : ~ForAccessor(Groups[g][i]))
                   => Len(Groups[g]) = 1

\* the filesystem once the first n groups have been applied, none raising
AfterGroups(n) ==
    ChangeGroups(Outcome(last.fs, None), SubSeq(Groups, 1, n), clock)

\* the group that raised: the first that raises once those before it are applied
FailingGroup ==
    CHOOSE k \in DOMAIN Groups :
        /\ AfterGroups(k - 1).error = None
        /\ ChangeGroup(AfterGroups(k - 1).fs, Groups[k], clock).error # None

\* C16: when a command of a group raises UnsupportedChangeError, change()
\* raises it at that group: the group's file is left on disk as it was when
\* the group began, every group before it stays applied, and no group after
\* it is applied.
C16_FailingBatch ==
    (ChangeDone /\ last.error = "UnsupportedChangeError") =>
        LET k == FailingGroup
            path == Groups[k][1].path
        IN /\ \A i \in DOMAIN Groups[k] : ForAccessor(Groups[k][i])
           /\ path \in DOMAIN fs <=> path \in DOMAIN AfterGroups(k - 1).fs
           /\ path \in DOMAIN fs => fs[path] = AfterGroups(k - 1).fs[path]
           /\ fs = AfterGroups(k - 1).fs

\* a group raised UnsupportedChangeError after an earlier group had changed
\* the disk and before a later group that would have changed it
C16_Witness ==
    /\ ChangeDone /\ last.error = "UnsupportedChangeError"
    /\ FailingGroup > 1 /\ FailingGroup < Len(Groups)
    /\ AfterGroups(FailingGroup - 1).fs # last.fs
    /\ ChangeGroup(fs, Groups[FailingGroup + 1], clock).error = None
    /\ ChangeGroup(fs, Groups[FailingGroup + 1], clock).fs # fs

-----------------------------------------------------------------------------
(* Claims about unparseable files.                                         *)

\* C17: a file that cannot be parsed never blocks a read: info() on it
\* returns a FileInfo with only the path set, and query(), a backlink lookup
\* and the cache refresh complete, query() reporting every other file.
C17_UnparseableNeverBlocks ==
    /\ last.op \in {"info", "query", "refresh"} => last.error = None
    /\ (last.op = "info" /\ InfoRaises(last.path, FALSE)) =>
           last.result = FileInfo(last.path)
    /\ last.op = "query" =>
           \A e \in _paths : ~InfoRaises(e.path, e.skip_parse) =>
               DirectInfoOwn(e.path, e.skip_parse) \in last.result

-----------------------------------------------------------------------------
(* Claims about the plan of a rearrangement.                               *)

\* edits_for_rearrange has just yielded its plan
Planned ==
    /\ last.op = "plan"
    /\ last.planner = "edits_for_rearrange"
    /\ last.error = None

\* the path is a temporary file of the plan
IsTmp(path) == \E d \in Values(last.renames) : path = mkstemp(d)

\* C18: in the plan of edits_for_rearrange every ReplaceHref command comes
\* before every Move command and names a file that is at that path when the
\* plan is made; among the Moves, every staging move (old -> tmp) and every
\* move that needs no staging comes before every completion move (tmp -> new).
C18_PlanOrder ==
    Planned =>
        \A i, j \in DOMAIN edits :
            /\ (edits[i].cmd = "ReplaceHref" /\ edits[j].cmd = "Move") => i < j
            /\ edits[i].cmd = "ReplaceHref" => IsFileIn(last.fs, edits[i].path)
            /\ (/\ edits[i].cmd = "Move" /\ ~IsTmp(edits[i].path)
                /\ edits[j].cmd = "Move" /\ IsTmp(edits[j].path)) => i < j

\* a plan with a ReplaceHref, a staging move, a move that needs no staging
\* and a completion move
C18_Witness ==
    /\ Planned
    /\ \E i \in DOMAIN edits : edits[i].cmd = "ReplaceHref"
    /\ \E i \in DOMAIN edits : edits[i].cmd = "Move" /\ IsTmp(edits[i].dest)
    /\ \E i \in DOMAIN edits :
          edits[i].cmd = "Move" /\ ~IsTmp(edits[i].dest) /\ ~IsTmp(edits[i].path)
    /\ \E i \in DOMAIN edits : edits[i].cmd = "Move" /\ IsTmp(edits[i].path)

\* the file that was at src is a document of the plan's directory
MovedDocs == {src \in Keys(last.all_moves) : IsFileIn(last.fs, src) /\ IsMarkdown(src)}

\* the href, read from where the file will be, already resolves to where its
\* target will be
AlreadyCorrect(src, href) ==
    /\ referent(LinkInfo(src, href)) # NonePath
    /\ referent(LinkInfo(NewHome(src), href)) = NewHome(referent(LinkInfo(src, href)))

\* the plan has no ReplaceHref for the href of the file, and once the plan is
\* applied the file holds the href where it did
LeftAlone(src, pos) ==
    LET href == last.fs[src].doc.lines[pos[1]][pos[2]]
    IN /\ Planned =>
              \A i \in DOMAIN edits :
                  ~(/\ edits[i].cmd = "ReplaceHref"
                    /\ edits[i].path = src
                    /\ edits[i].original = href)
       /\ Applied =>
              /\ IsFileIn(fs, NewHome(src))
              /\ pos \in Positions(fs[NewHome(src)].doc)
              /\ fs[NewHome(src)].doc.lines[pos[1]][pos[2]] = href

\* the href has no path: it names a part of the file it is in
PureFragment(href) ==
    href.scheme = "" /\ href.netloc = "" /\ ~href.abs /\ href.segs = <<>>

\* C19: every href with a path in a moved file that, read from the file's new
\* location, already resolves to its target's place after the moves gets no
\* ReplaceHref and keeps its text, however it is spelled.
C19_CorrectHrefsKept ==
    (Planned \/ Applied) =>
        \A src \in MovedDocs : \A pos \in Positions(last.fs[src].doc) :
            LET href == last.fs[src].doc.lines[pos[1]][pos[2]]
            IN (~PureFragment(href) /\ AlreadyCorrect(src, href)) => LeftAlone(src, pos)

\* C20: a pure-fragment href of a moved file gets no ReplaceHref, and the
\* moved file holds it unchanged.
C20_FragmentUntouched ==
    (Planned \/ Applied) =>
        \A src \in MovedDocs : \A pos \in Positions(last.fs[src].doc) :
            PureFragment(last.fs[src].doc.lines[pos[1]][pos[2]]) => LeftAlone(src, pos)

\* C21: an absolute-path href of a moved file whose target is not moved gets
\* no ReplaceHref, and the moved file holds it unchanged at its new path.
C21_AbsoluteHrefKept ==
    (Planned \/ Applied) =>
        \A src \in MovedDocs : \A pos \in Positions(last.fs[src].doc) :
            LET href == last.fs[src].doc.lines[pos[1]][pos[2]]
            IN (/\ href.scheme = "" /\ href.netloc = "" /\ href.abs
                /\ referent(LinkInfo(src, href)) \notin Keys(last.all_moves))
                   => LeftAlone(src, pos)

\* edits_for_rearrange has just been asked for a plan (it may have raised)
PlanAsked == last.op = "plan" /\ last.planner = "edits_for_rearrange"

\* the documents of the plan's directory that are not moved
UnmovedDocs ==
    {p \in DOMAIN last.fs :
        IsFileIn(last.fs, p) /\ IsMarkdown(p) /\ p \notin Keys(last.all_moves)}

\* C22: for every moved path and every href of a file that is not moved which
\* resolves to it (a relative path, an absolute path or a file URL, with or
\* without a fragment), planning succeeds and the plan has a ReplaceHref for
\* it whose replacement keeps the href's scheme, query and fragment and
\* resolves from the referrer to the moved path's destination.
C22_InboundRewriting ==
    PlanAsked =>
        \A referrer \in UnmovedDocs : \A pos \in Positions(last.fs[referrer].doc) :
            LET href == last.fs[referrer].doc.lines[pos[1]][pos[2]]
                target == referent(LinkInfo(referrer, href))
            IN target \in Keys(last.all_moves) =>
                  /\ last.error = None
                  /\ \E i \in DOMAIN edits :
                        /\ edits[i].cmd = "ReplaceHref"
                        /\ edits[i].path = referrer
                        /\ edits[i].original = href
                        /\ edits[i].replacement.scheme = href.scheme
                        /\ edits[i].replacement.query = href.query
                        /\ edits[i].replacement.frag = href.frag
                        /\ referent(LinkInfo(referrer, edits[i].replacement))
                               = Get(last.all_moves, target)

\* the rename map of the first of the two moves of a round trip
Away == IF last.back THEN Back(last.renames) ELSE last.renames

\* a move of one document to another directory, or its way back, has been
\* asked of edits_for_rearrange
RoundTrip ==
    /\ last.op \in {"plan", "change"}
    /\ last.planner = "edits_for_rearrange"
    /\ Len(Away) = 1
    /\ IsFileIn(last.start, Away[1][1])
    /\ IsMarkdown(Away[1][1])
    /\ Parent(Away[1][1]) # Parent(Away[1][2])
    /\ ~ExistsIn(last.start, Away[1][2])

\* the document is back where it was
RoundTripDone == RoundTrip /\ last.op = "change" /\ last.back

\* C23: a document with local hrefs (relative, absolute, file URL, fragment)
\* can be moved to another directory and back, and afterwards each of its
\* hrefs resolves to the target the original resolved to.
C23_RoundTrip ==
    RoundTrip =>
        /\ last.error = None
        /\ RoundTripDone =>
              LET src == Away[1][1]
                  doc == last.start[src].doc
              IN /\ IsFileIn(fs, src)
                 /\ Positions(fs[src].doc) = Positions(doc)
                 /\ \A pos \in Positions(doc) :
                       ResolvesTo(src, doc, pos) # NonePath =>
                           ResolvesTo(src, fs[src].doc, pos) = ResolvesTo(src, doc, pos)

-----------------------------------------------------------------------------
(* Claims about hrefs.                                                      *)

\* a path has been written as an href, and path_as_href has returned one
HrefWritten == last.op = "href" /\ last.href # ValueError

\* C24: the href that path_as_href(href_path(src, dest)) returns, resolved
\* from src, is exactly dest, whatever characters the names hold; put into an
\* existing href, it has that href's query and fragment as they were.
C24_EncodeResolve ==
    HrefWritten =>
        /\ last.referent = last.dest
        /\ last.href.query = last.into_url.query
        /\ last.href.frag = last.into_url.frag

\* a name with a number sign was put into an href that has a query and a
\* fragment, from another directory
C24_Witness ==
    /\ HrefWritten
    /\ Basename(last.dest) = "h#i.md"
    /\ Parent(last.dest) # Parent(last.src)
    /\ last.into_url.query # ""
    /\ last.into_url.frag # ""
    /\ Basename(last.dest) \notin Range(last.href.segs)

\* LinkInfo.referent has resolved an href
Resolved == last.op = "referent"

\* the href is not a local one: a scheme other than none and file, a file URL
\* with a host other than none and localhost, or a malformed URL
NonLocal(href) ==
    \/ href.scheme \notin {"", "file"}
    \/ href.scheme = "file" /\ href.netloc \notin {"", "localhost"}
    \/ href.netloc \in InvalidNetlocs

\* the URL path percent-decoded, taken from the referrer's parent directory
\* when relative, and made canonical
DecodedPath(referrer, href) ==
    LET decoded == [i \in DOMAIN href.segs |-> unquote_plus(href.segs[i])]
    IN realpath((IF href.abs THEN <<>> ELSE Parent(referrer)) \o decoded)

\* C32, as stated: the resolver returns nothing exactly for non-local hrefs;
\* for every other href it returns the canonical absolute path obtained by
\* percent-decoding the URL path and resolving it against the referrer's
\* parent directory when relative, ignoring query and fragment
C32_Resolver ==
    Resolved =>
        /\ last.referent = NonePath <=> NonLocal(last.href)
        /\ ~NonLocal(last.href) => last.referent = DecodedPath(last.referrer, last.href)

\* C32, amended: the resolver returns nothing exactly for non-local hrefs; a
\* local href with an empty URL path (such as #foo) resolves to the referrer
\* itself; every other href resolves to the canonical absolute path obtained
\* by percent-decoding the URL path and resolving it against the referrer's
\* parent directory when relative, ignoring query and fragment
C32_ResolverAmended ==
    Resolved =>
        /\ last.referent = NonePath <=> NonLocal(last.href)
        /\ ~NonLocal(last.href) =>
               last.referent = IF ~last.href.abs /\ last.href.segs = <<>>
                               THEN last.referrer
                               ELSE DecodedPath(last.referrer, last.href)

\* an encoded relative path with a query and a fragment, in a file URL of
\* the local host, has been resolved from a subdirectory
C32_Witness ==
    /\ Resolved
    /\ last.href.scheme = "file" /\ last.href.netloc = "localhost"
    /\ last.href.segs = <<"d", ".", "z%21.md">>
    /\ last.href.query # "" /\ last.href.frag # ""
    /\ last.referent = <<"d", "z!.md">>

-----------------------------------------------------------------------------
(* Claims about sorting.                                                    *)

Sorted == last.op = "sort"

\* how often a value occurs in a sequence
Count(seq, x) == Cardinality({i \in DOMAIN seq : seq[i] = x})

\* the infos have the same key for every sort of the list
TiedOn(sort_by, a, b) ==
    \A k \in DOMAIN sort_by : key(sort_by[k], a) = key(sort_by[k], b)

\* a comes before b in the lexicographic order of the list's keys, each
\* ascending or, with reverse, descending
ComesBefore(sort_by, a, b) ==
    \E k \in DOMAIN sort_by :
        /\ \A m \in 1..(k - 1) : key(sort_by[m], a) = key(sort_by[m], b)
        /\ SortsBefore(sort_by[k], a, b)

\* the info has no value for the field (no title, or an empty one; no created)
Missing(field, info) ==
    \/ field = "title" /\ info.title \in {None, ""}
    \/ field = "created" /\ info.created = None

\* C26: apply_sorting returns a permutation of its input, in the
\* lexicographic order of the sort_by keys (each ascending, or descending with
\* reverse); infos equal on every key keep their input order; infos without
\* the title or created that is sorted on first come after those that have
\* one when missing_first is false, before them when it is true, and the other
\* way round with reverse.
C26_Sorting ==
    Sorted =>
        /\ \A x \in SortInfos : Count(last.result, x) = Count(last.infos, x)
        /\ \A i, j \in DOMAIN last.result :
              i < j => ~ComesBefore(last.sort_by, last.result[j], last.result[i])
        /\ \A x \in Range(last.infos) :
              SelectSeq(last.result, LAMBDA y : TiedOn(last.sort_by, x, y))
                  = SelectSeq(last.infos, LAMBDA y : TiedOn(last.sort_by, x, y))
        /\ last.sort_by # <<>> =>
              \A i, j \in DOMAIN last.result :
                  (/\ Missing(last.sort_by[1].field, last.result[i])
                   /\ ~Missing(last.sort_by[1].field, last.result[j]))
                      => (i < j <=> last.sort_by[1].missing_first # last.sort_by[1].reverse)

\* two keys, the first descending on titles with one missing, the second
\* breaking a tie of the first, and the input was not in order
C26_Witness ==
    /\ Sorted
    /\ Len(last.sort_by) = 2
    /\ last.sort_by[1].field = "title"
    /\ last.sort_by[1].reverse
    /\ last.sort_by[1].ignore_case
    /\ \E i \in DOMAIN last.infos : Missing("title", last.infos[i])
    /\ \E i, j \in DOMAIN last.infos :
          /\ last.infos[i] # last.infos[j]
          /\ key(last.sort_by[1], last.infos[i]) = key(last.sort_by[1], last.infos[j])
          /\ ~TiedOn(last.sort_by, last.infos[i], last.infos[j])
    /\ last.result # last.infos

-----------------------------------------------------------------------------
(* Claims about ignored paths.                                              *)

\* conf.ignore holds for the path or for one of its ancestors below a root
Ignored(path) ==
    \E root \in root_paths :
        /\ IsUnder(root, path)
        /\ \E k \in (Len(root) + 1)..Len(path) : ignore(SubSeq(path, 1, k - 1), path[k])

\* each count of tag_counts() is a count of files that are not ignored
CountsSkipIgnored(infos) ==
    \A tag \in DOMAIN tag_counts(infos) :
        tag_counts(infos)[tag]
            = Cardinality({info \in infos : tag \in info.tags /\ ~Ignored(info.path)})

\* the links that files which are walked and parsed have to the path
LinksOnDiskTo(path) ==
    {link \in UNION {Range(AccessorInfo(r).links) : r \in ReferrersOnDisk(path)} :
        referent(link) = path}

\* C27: an ignored path is never yielded by query() nor counted by
\* tag_counts(), is never parsed (info() has none of its metadata, a refresh
\* does not parse it), is never the referrer of a backlink, and info() of it
\* still has the links that files which are not ignored have to it as
\* backlinks; on both repositories.
C27_IgnoredPaths ==
    /\ \A q \in TagFilters :
          /\ CountsSkipIgnored(DirectQuery(q))
          /\ CountsSkipIgnored(SqliteQuery(q))
    /\ \A path \in {p \in IgnorePaths : Ignored(p)} :
          /\ \A q \in TagFilters :
                /\ path \notin {info.path : info \in DirectQuery(q)}
                /\ path \notin {info.path : info \in SqliteQuery(q)}
          /\ DirectInfo(path, FALSE) = FileInfo(path)
          /\ SqliteInfo(path, FALSE) = FileInfo(path)
          /\ Refreshed => path \notin last.parsed
          /\ \A other \in IgnorePaths :
                /\ \A i \in DOMAIN DirectInfo(other, TRUE).backlinks :
                      DirectInfo(other, TRUE).backlinks[i].referrer # path
                /\ \A i \in DOMAIN SqliteInfo(other, TRUE).backlinks :
                      SqliteInfo(other, TRUE).backlinks[i].referrer # path
          /\ LinksOnDiskTo(path) \subseteq Range(DirectInfo(path, TRUE).backlinks)
          /\ Refreshed => LinksOnDiskTo(path) \subseteq Range(SqliteInfo(path, TRUE).backlinks)

\* after a refresh: a hidden file with tags links to a.md, a.md links to it
\* and the cache reports that link as its backlink
C27_Witness ==
    /\ Refreshed
    /\ isfile(NotesH) /\ isfile(NotesA) /\ isfile(NotesIB)
    /\ fs[NotesH].doc = DocToA
    /\ fs[NotesA].doc = DocToHidden
    /\ LinksOnDiskTo(NotesH) # {}
    /\ LinksOnDiskTo(NotesIB) # {}
    /\ SqliteInfo(NotesH, TRUE).backlinks # <<>>
    /\ SqliteQuery(FileQuery({}, {})) # {}

-----------------------------------------------------------------------------
(* Claims about Notesdir.move and preview mode.                             *)

\* a move or a relink has run with conf.preview_mode set
Previewed == last.op \in {"move", "relink"} /\ last.preview_mode

\* C28: with preview_mode set, a move, relink or change only prints the
\* planned commands: afterwards the filesystem is what it was (no file
\* content modified, no file or directory moved, created or deleted, for
\* every rename map including swaps and chains) and the cache has not been
\* invalidated
C28_PreviewOnlyPrints ==
    Previewed => fs = last.fs /\ needs_refresh = last.needs_refresh

\* the effective destination of an entry of moves: into the destination when
\* that is a directory
EffectiveDest(item) ==
    IF IsDirIn(last.fs, item[2]) THEN Append(item[2], Basename(item[1])) ELSE item[2]

\* C29: a move of a path onto itself is filtered out before planning: for
\* every entry of Notesdir.move whose source and effective destination are
\* the same path (the destination may be the source's own parent directory)
\* no edit is produced for it, the file keeps its name and content, and the
\* entry is absent from the returned map
C29_OntoItselfFiltered ==
    last.op = "move" =>
        \A i \in DOMAIN last.moves :
            LET src == last.moves[i][1]
            IN ExistsIn(last.fs, src) /\ EffectiveDest(last.moves[i]) = src
               => /\ \A k \in DOMAIN last.planned : last.planned[k].path # src
                  /\ ExistsIn(fs, src) /\ fs[src] = last.fs[src]
                  /\ src \notin Keys(last.returned)

\* two documents are the same note: title, date, tags, and as many links on
\* every line (a move rewrites the addresses of the links)
SameNote(d1, d2) ==
    /\ d1.title = d2.title /\ d1.created = d2.created /\ d1.tags = d2.tags
    /\ [i \in DOMAIN d1.lines |-> Len(d1.lines[i])] = [i \in DOMAIN d2.lines |-> Len(d2.lines[i])]

Swap == << <<NotesA, NotesB>>, <<NotesB, NotesA>> >>

\* C30: Notesdir.move accepts a path that is both a key and another key's
\* value: move({a: b, b: a}) with its default arguments swaps the two files:
\* afterwards b holds a's former content, a holds b's former content, and
\* the returned map is {a: b, b: a}
C30_SwapByDefault ==
    /\ last.op = "move" /\ last.moves = Swap /\ ExistsIn(last.fs, NotesB)
    /\ last.check_exists /\ ~last.create_missing_dirs /\ ~last.preview_mode
    => /\ last.returned = Swap
       /\ IsFileIn(fs, NotesA) /\ SameNote(fs[NotesA].doc, last.fs[NotesB].doc)
       /\ IsFileIn(fs, NotesB) /\ SameNote(fs[NotesB].doc, last.fs[NotesA].doc)

\* Notesdir.move has moved something with check_exists set, and returned
MovedChecked ==
    /\ last.op = "move" /\ last.check_exists /\ ~last.preview_mode
    /\ last.error = None /\ last.returned # <<>>

\* where a path of the old filesystem is after the move
NewLoc(p) == IF p \in Keys(last.all_moves) THEN Get(last.all_moves, p) ELSE p

\* the files of the filesystem the move began on
OldFiles == {p \in DOMAIN last.fs : IsFileIn(last.fs, p)}

\* every link of the file that was at p resolves to where its target is now
LinksFollow(p) ==
    LET old == last.fs[p].doc.lines
        new == fs[NewLoc(p)].doc.lines
    IN \A i \in DOMAIN old : \A j \in DOMAIN old[i] :
           LET was == referent(LinkInfo(p, old[i][j]))
           IN was # NonePath => referent(LinkInfo(NewLoc(p), new[i][j])) = NewLoc(was)

-----------------------------------------------------------------------------
(* Claims about the grouping of the plan.                                   *)

\* C33: in the plan yielded by edits_for_rearrange all ReplaceHref commands
\* that target the same referrer file are contiguous (so that change() loads
\* and saves each referrer once), for every rename map, also when one file
\* that is not moved links to two or more moved paths
C33_ReferrerEditsContiguous ==
    Planned =>
        \A i, k \in DOMAIN edits :
            /\ i < k
            /\ edits[i].cmd = "ReplaceHref" /\ edits[k].cmd = "ReplaceHref"
            /\ edits[i].path = edits[k].path
            => \A j \in i..k : edits[j].path = edits[i].path

-----------------------------------------------------------------------------
(* Claims about what a rearrangement leaves alone.                          *)

\* a move or a relink has been applied, and has returned
Rearranged ==
    /\ last.op \in {"move", "relink"}
    /\ ~last.preview_mode /\ last.error = None

\* the paths that have moved, and the paths whose links are to be rewritten
MovedPaths == IF last.op = "move" THEN Keys(last.all_moves) ELSE {}

AffectedPaths == IF last.op = "move" THEN Keys(last.all_moves) ELSE {last.original}

\* where a file of the old filesystem is now
Now(p) == IF p \in MovedPaths THEN Get(last.all_moves, p) ELSE p

\* the files that were moved to one place, one over the other (with
\* check_exists off)
Replaced ==
    {p \in DOMAIN last.fs : \E q \in DOMAIN last.fs : q # p /\ Now(q) = Now(p)}

\* the href at a position of the file may have been rewritten: it resolves
\* to a local path in a moved file, to a moved (relinked) path in another
MayChange(p, href) ==
    LET target == referent(LinkInfo(p, href))
    IN IF p \in MovedPaths THEN target # NonePath ELSE target \in AffectedPaths

\* C34: the frame of a rearrange or relink: the only text changed is hrefs in
\* moved files that resolve to a local path and hrefs in non-moved files that
\* resolve to a moved (or relinked) path; every non-local href, every href to
\* an unaffected path, and every file that is neither moved nor refers to a
\* moved path is unchanged
C34_Frame ==
    Rearranged =>
        \A p \in {q \in DOMAIN last.fs : IsFileIn(last.fs, q)} \ Replaced :
            /\ IsFileIn(fs, Now(p))
            /\ LET old == last.fs[p].doc
                   new == fs[Now(p)].doc
               IN /\ [new EXCEPT !.lines = old.lines] = old
                  /\ DOMAIN new.lines = DOMAIN old.lines
                  /\ \A i \in DOMAIN old.lines :
                         /\ DOMAIN new.lines[i] = DOMAIN old.lines[i]
                         /\ \A j \in DOMAIN old.lines[i] :
                                new.lines[i][j] # old.lines[i][j]
                                => MayChange(p, old.lines[i][j])

-----------------------------------------------------------------------------
(* Claims about the cache and the disk.                                     *)

\* the paths backlinks are asked for: the files of the model, on disk or not,
\* and a path nothing was ever at
AskedPaths == CachePaths \cup {<<"n", "c.md">>}

\* C35: after a refresh, for every path (on disk or not),
\* SqliteRepo.info(path).backlinks equals DirectRepo.info(path).backlinks on
\* the same filesystem, whatever files were created, modified and deleted
\* before the refresh
C35_BacklinksAgree ==
    Refreshed =>
        \A path \in AskedPaths :
            SqliteInfo(path, TRUE).backlinks = DirectInfo(path, TRUE).backlinks

\* C36: refresh reaches a fixpoint in one pass: a second refresh, run on the
\* unchanged filesystem right after a completed refresh, changes no file, tag
\* or link row, whatever the first refresh handled and in whatever order it
\* processed the removed records
C36_RefreshFixpoint ==
    Refreshed =>
        \A order \in Perms(ids_to_delete(RefreshScanned)) :
            LET again == _refresh(order)
            IN /\ again.files = files
               /\ again.file_tags = file_tags
               /\ again.file_links = file_links

\* the ids of the records of table files
FileIds == {r.id : r \in files}

\* C37: after a refresh the cache is referentially consistent: one record per
\* path (and per id), every link row's referrer_id and non-null referent_id
\* is the id of a record, every tag row's file_id is the id of a record, and
\* a link row has a null referent_id exactly when its href is non-local.
C37_ReferentiallyConsistent ==
    Refreshed =>
        /\ \A r, q \in files : (r.path = q.path \/ r.id = q.id) => r = q
        /\ \A t \in file_tags : t[1] \in FileIds
        /\ \A l \in DOMAIN file_links :
              /\ l.referrer_id \in FileIds
              /\ l.referent_id # NoId => l.referent_id \in FileIds
              /\ \A r \in files :
                    r.id = l.referrer_id =>
                        (l.referent_id = NoId <=>
                            referent(LinkInfo(r.path, l.href)) = NonePath)

\* a refresh that dropped the record of a deleted file, kept the record of
\* another deleted file because a link row still points at it, and left a row
\* with a null referent beside rows with records for referents
C37_Witness ==
    /\ Refreshed
    /\ \E r \in last.files : r.existent /\ r.id \notin FileIds
    /\ \E r \in files, q \in last.files :
          /\ ~r.existent /\ q.id = r.id /\ q.existent
          /\ \E l \in DOMAIN file_links : l.referent_id = r.id
    /\ \E l \in DOMAIN file_links : l.referent_id = NoId
    /\ file_tags # {}

-----------------------------------------------------------------------------
(* Claims about planning and application.                                  *)

\* C38: when change() is given the generator of edits_for_rearrange, every
\* lookup of the planner (repository and disk) is made while no group has been
\* applied, and the edits change() groups are the plan computed on the
\* filesystem as it was when change() was called.
C38_PlannedBeforeApplied ==
    last.op = "change" =>
        /\ last.reads \subseteq {0}
        /\ last.applied > 0 => last.exhausted
        /\ last.exhausted => Flatten(last.result) = last.whole

\* every group of a plan with a link rewrite and a move has been applied, the
\* planner made several lookups, and planning on the filesystem as it is now
\* would give another plan
C38_Witness ==
    /\ last.op = "change"
    /\ last.exhausted
    /\ last.error = None
    /\ last.applied = Len(last.result)
    /\ last.applied >= 2
    /\ Len(last.all_moves) >= 2
    /\ \E i \in DOMAIN last.whole : last.whole[i].cmd = "ReplaceHref"
    /\ edits_for_rearrange(last.renames) # last.whole

-----------------------------------------------------------------------------
(* Claims about a change() that raises.                                    *)

\* the refresh was run by the first read after a change() that raised when
\* it had altered the disk
AfterPartialChange ==
    /\ Refreshed
    /\ last.cause.op = "change"
    /\ last.cause.error # None
    /\ last.cause.applied

\* C39: a change() that raises after some of its batches were applied leaves
\* a refresh due, and after that refresh info() answers for every path, and
\* query() lists, what the direct repository reads on the disk as the
\* change left it.
C39_PartialChangeReflected ==
    /\ (last.op = "change" /\ last.error # None /\ last.applied) => needs_refresh
    /\ AfterPartialChange =>
          /\ \A path \in AskedPaths : SqliteInfo(path, TRUE) = DirectInfo(path, TRUE)
          /\ Listing = DirectQuery(FileQuery({}, {}))

-----------------------------------------------------------------------------
(* Claims about skip_parse.                                                *)

\* C40: after a refresh, every file on disk that skip_parse matches is
\* yielded by the cached query() with only its path populated, as the direct
\* query() yields it, whatever record its path had before.
C40_SkipParseListed ==
    Refreshed =>
        \A e \in _paths :
            e.skip_parse =>
                /\ FileInfo(e.path) \in DirectQuery(FileQuery({}, {}))
                /\ FileInfo(e.path) \in Listing

=============================================================================
